---- MODULE Spec2Model ----
(***************************************************************************)
(* Model of the three OpenWebUI tools of PureGrain/openwebui-stuff:        *)
(*   tools/proxmoxweaver/proxmoxweaver.py  (class Tools, Proxmox facade)   *)
(*   tools/timeweaver/timeweaver.py        (class Tools, date/time)        *)
(*   tools/weatherweaver/weatherweaver.py  (class Tools, weather)          *)
(* A behaviour is the life of ONE tool instance: Init constructs it and    *)
(* the host then alternates between invoking one public method and taking  *)
(* its result (single-threaded access per instance); the clock advances    *)
(* between calls.  One further kind of behaviour drops that guarantee for  *)
(* the Proxmox facade: two host threads run _get_api on the same instance  *)
(* and their statements interleave.                                        *)
(* The remote side (Proxmox API, Open-Meteo, tz database) is the input of  *)
(* each call and is drawn from small sets.                                 *)
(***************************************************************************)
EXTENDS Integers, Sequences, FiniteSets

VARIABLES
    tool,          \* which of the three Tools classes this instance is
    valves,        \* self.valves
    user_valves,   \* self.user_valves
    _api_cache,    \* self._api_cache   (proxmox): 0 is None, n > 0 is handle n
    _cache_time,   \* self._cache_time  (proxmox): NoTime is None, else the clock value
    now,           \* datetime.now(), in whole seconds
    created,       \* number of ProxmoxAPI objects constructed so far
    ret,           \* the last public call: its inputs and what it returned
    frames,        \* the _get_api calls of concurrent host threads: where each is
                   \* and the handle it constructed; <<>> on a single-threaded host
    stamper,       \* history: the handle constructed by the call that last
                   \* assigned self._cache_time (0: none did)
    overlapped     \* history: two _get_api calls have been in progress at once

vars == <<tool, valves, user_valves, _api_cache, _cache_time, now, created, ret,
          frames, stamper, overlapped>>

(*************************** bounds ****************************************)
MaxTime == 1
MaxTimeout == 1
MaxHandles == 2

(*************************** Python values *********************************)
\* Python's None
None == "<None>"

\* truth value of an Optional[str]: None and "" are falsy
Truthy(s) == s # None /\ s # ""

\* a or b
Or(a, b) == IF Truthy(a) THEN a ELSE b

\* self._cache_time = None
NoTime == -1

\* what a call that raised hands back: nothing
NoValue == [shape |-> "none", keys |-> {}, items |-> <<>>, kind |-> "none"]

\* no public method has been called yet
NoCall == [op |-> "idle", raised |-> FALSE, value |-> NoValue]

\* the host invokes a method only after it took the result of the previous one
Idle == ret.op = "idle"

\* the host calls the instance from one thread only
Serial == frames = <<>>

\* an instance as a single-threaded host constructs it
SingleThreaded ==
    /\ frames = <<>>
    /\ stamper = 0
    /\ overlapped = FALSE

\* the host takes the result of the last call
Deliver ==
    /\ ~Idle
    /\ ret' = NoCall
    /\ UNCHANGED <<tool, valves, user_valves, _api_cache, _cache_time, now, created,
                 frames, stamper, overlapped>>

(*************************** timeweaver ************************************)
\* the identifiers the system tz database knows (a sample of it)
IANA == {"UTC", "Asia/Tokyo"}

\* strings a caller or an administrator may supply as a timezone
TzStrings == IANA \cup {"Mars/Base", ""}

ZoneInfo_fallback(key) == [ok |-> TRUE, key |-> key, exc |-> None]

\* ZoneInfo(key): the lookup either yields the zone or raises
ZoneInfo(key) ==
    IF key \in IANA
    THEN [ok |-> TRUE, key |-> key, exc |-> None]
    ELSE [ok |-> FALSE, key |-> key,
          exc |-> IF key = "" THEN "ValueError" ELSE "ZoneInfoNotFoundError"]

\* Tools._get_timezone
_get_timezone_pref_default ==
    ZoneInfo(Or(valves.default_timezone, user_valves.user_timezone))

_get_timezone ==
    ZoneInfo(Or(user_valves.user_timezone, valves.default_timezone))

\* the common body of the three date/time methods: resolve the zone, then
\* call strftime nfmt times on datetime.now(tz)
TimeMethod(op, timezone, nfmt) ==
    LET tz == IF Truthy(timezone) THEN ZoneInfo(timezone) ELSE _get_timezone
    IN  IF tz.ok
        THEN [op |-> op, timezone |-> timezone, raised |-> FALSE, exc |-> None,
              tz |-> tz.key, strftime |-> nfmt,
              value |-> [shape |-> "str", keys |-> {}, items |-> <<>>,
                         kind |-> "report", zone |-> tz.key]]
        ELSE [op |-> op, timezone |-> timezone, raised |-> TRUE, exc |-> tz.exc,
              tz |-> tz.key, strftime |-> 0,
              value |-> NoValue]

TimeFrame == UNCHANGED <<tool, valves, user_valves, _api_cache, _cache_time, now, created,
                 frames, stamper, overlapped>>

get_current_date ==
    /\ tool = "time"
    /\ Idle
    /\ \E timezone \in TzStrings \cup {None} :
         ret' = TimeMethod("get_current_date", timezone, 2)
    /\ TimeFrame

get_current_time ==
    /\ tool = "time"
    /\ Idle
    /\ \E timezone \in TzStrings \cup {None} :
         ret' = TimeMethod("get_current_time", timezone, 3)
    /\ TimeFrame

get_current_datetime ==
    /\ tool = "time"
    /\ Idle
    /\ \E timezone \in TzStrings \cup {None} :
         ret' = TimeMethod("get_current_datetime", timezone, 3)
    /\ TimeFrame

InitTime ==
    /\ tool = "time"
    /\ valves \in [default_timezone : TzStrings]
    /\ user_valves \in [user_timezone : TzStrings \cup {None}]
    /\ _api_cache = 0
    /\ _cache_time = NoTime
    /\ now = 0
    /\ created = 0
    /\ ret = NoCall
    /\ SingleThreaded

(*************************** proxmoxweaver: values *************************)
\* {"error": msg}
ErrMap(msg) == [shape |-> "map", keys |-> {"error"}, items |-> <<>>,
                kind |-> "error", msg |-> msg]

\* [{"error": msg}]
ErrList_bare(msg) == [shape |-> "list", keys |-> {}, items |-> <<>>,
                      kind |-> "error", msg |-> msg]

ErrList(msg) == [shape |-> "list", keys |-> {},
                 items |-> <<[kind |-> "error", keys |-> {"error"}, msg |-> msg]>>,
                 kind |-> "error", msg |-> msg]

\* [{"message": ...}], the placeholder of an empty listing
MsgList == [shape |-> "list", keys |-> {},
            items |-> <<[kind |-> "message", keys |-> {"message"}]>>,
            kind |-> "message"]

\* a listing with entries
DataList(items) == [shape |-> "list", keys |-> {}, items |-> items, kind |-> "data"]

\* "return xs if xs else [{"message": ...}]"
ListOrMsg(items) == IF items = <<>> THEN MsgList ELSE DataList(items)

\* a mapping of data with the given keys
DataMap(keys) == [shape |-> "map", keys |-> keys, items |-> <<>>, kind |-> "data"]

\* the value is a mapping with the key "error", or a list holding such a mapping
HasError(v) ==
    \/ v.shape = "map" /\ "error" \in v.keys
    \/ v.shape = "list" /\ \E i \in 1..Len(v.items) : "error" \in v.items[i].keys

\* the outcome of one remote call that yields a list
Fail == [ok |-> FALSE, data |-> <<>>]
Ok(data) == [ok |-> TRUE, data |-> data]

(*************************** proxmoxweaver: _get_api ***********************)
\* the cached handle is still valid
CacheFreshInclusive ==
    /\ _api_cache # 0
    /\ _cache_time # NoTime
    /\ now - _cache_time <= valves.CACHE_TIMEOUT

CacheFresh ==
    /\ _api_cache # 0
    /\ _cache_time # NoTime
    /\ now - _cache_time < valves.CACHE_TIMEOUT

_get_api_restamp(connectOk) ==
    LET pre == [cache |-> _api_cache, time |-> _cache_time, at |-> now,
                timeout |-> valves.CACHE_TIMEOUT, connectOk |-> connectOk]
    IN  IF CacheFresh
        THEN [tuple |-> FALSE, api |-> _api_cache, attempts |-> 0, pre |-> pre,
              cache |-> _api_cache, time |-> _cache_time, created |-> created]
        ELSE IF connectOk
        THEN [tuple |-> FALSE, api |-> created + 1, attempts |-> 1, pre |-> pre,
              cache |-> created + 1, time |-> now, created |-> created + 1]
        ELSE [tuple |-> TRUE, api |-> 0, attempts |-> 1, pre |-> pre,
              cache |-> _api_cache, time |-> now, created |-> created]

\* Tools._get_api; connectOk says whether importing proxmoxer and
\* constructing ProxmoxAPI succeed.  tuple = TRUE is the pair (None, message).
_get_api(connectOk) ==
    LET pre == [cache |-> _api_cache, time |-> _cache_time, at |-> now,
                timeout |-> valves.CACHE_TIMEOUT, connectOk |-> connectOk]
    IN  IF CacheFresh
        THEN [tuple |-> FALSE, api |-> _api_cache, attempts |-> 0, pre |-> pre,
              cache |-> _api_cache, time |-> _cache_time, created |-> created]
        ELSE IF connectOk
        THEN [tuple |-> FALSE, api |-> created + 1, attempts |-> 1, pre |-> pre,
              cache |-> created + 1, time |-> now, created |-> created + 1]
        ELSE [tuple |-> TRUE, api |-> 0, attempts |-> 1, pre |-> pre,
              cache |-> _api_cache, time |-> _cache_time, created |-> created]

\* whether constructing the connection can fail matters only when
\* _get_api gets that far
Connects == IF CacheFresh THEN {TRUE} ELSE BOOLEAN

(*************************** proxmoxweaver: the requests of a call *********)
\* one request to the Proxmox API: the endpoint, the node and the item
\* (vmid, storage) it names, 0 for none, and whether it is answered
Req(what, node, item, ok) == [ok |-> ok, what |-> what, node |-> node, item |-> item]

\* list_all_vms: the status.current call of every VM of a node
RECURSIVE VmStatusCalls(_, _, _)
VmStatusCalls(node, vms, i) ==
    IF i > Len(vms) THEN <<>>
    ELSE <<Req("nodes.qemu.status.current", node, i, vms[i])>>
         \o VmStatusCalls(node, vms, i + 1)

\* list_all_vms: the qemu listing of every node, up to the first that raises
RECURSIVE VmCalls(_, _, _)
VmCalls(nodes, qemu, i) ==
    IF i > Len(nodes) THEN <<>>
    ELSE LET q == qemu[nodes[i]]
         IN  <<Req("nodes.qemu", nodes[i], 0, q.ok)>>
             \o (IF q.ok
                 THEN VmStatusCalls(nodes[i], q.data, 1) \o VmCalls(nodes, qemu, i + 1)
                 ELSE <<>>)

\* list_backups: the content call of every backup storage of one node
RECURSIVE BackupStorCalls(_, _, _, _)
BackupStorCalls(node, storages, w, j) ==
    IF j > Len(storages) THEN <<>>
    ELSE (IF w.backupStore[storages[j]]
          THEN <<Req("nodes.storage.content", node, storages[j],
                     w.content[<<node, storages[j]>>].ok)>>
          ELSE <<>>)
         \o BackupStorCalls(node, storages, w, j + 1)

RECURSIVE BackupNodeCalls(_, _, _, _)
BackupNodeCalls(nodes, storages, w, i) ==
    IF i > Len(nodes) THEN <<>>
    ELSE BackupStorCalls(nodes[i], storages, w, 1)
         \o BackupNodeCalls(nodes, storages, w, i + 1)

\* list_recent_tasks, get_node_status: one call per node, okOf[n] its answer
RECURSIVE PerNodeCalls(_, _, _, _)
PerNodeCalls(what, nodes, okOf, i) ==
    IF i > Len(nodes) THEN <<>>
    ELSE <<Req(what, nodes[i], 0, okOf[nodes[i]])>> \o PerNodeCalls(what, nodes, okOf, i + 1)

\* list_storage_pools: inside the loop over the storages, api.nodes.get()
\* and then the status call on the first node of its answer
RECURSIVE PoolCalls(_, _, _)
PoolCalls(storages, w, j) ==
    IF j > Len(storages) THEN <<>>
    ELSE LET u == w.usage[storages[j]]
         IN  <<Req("nodes", 0, 0, u # "nodesfail")>>
             \o (IF u \in {"ok", "statusfail"}
                 THEN <<Req("nodes.storage.status", 1, storages[j], u = "ok")>>
                 ELSE <<>>)
             \o PoolCalls(storages, w, j + 1)

\* the requests a public method issues, in order, when the transport answers
\* as w says; of the methods modelled by their try/except frame only the
\* first request is listed
RemoteCalls(op, args, w, api) ==
    IF api.tuple THEN <<>>
    ELSE CASE op = "list_all_vms" ->
                <<Req("nodes", 0, 0, w.nodes.ok)>>
                \o (IF w.nodes.ok THEN VmCalls(w.nodes.data, w.qemu, 1) ELSE <<>>)
           [] op = "list_backups" ->
                IF args.storage # 0 /\ args.node # 0
                THEN <<Req("nodes.storage.content", args.node, args.storage,
                           w.content[<<args.node, args.storage>>].ok)>>
                ELSE <<Req("nodes", 0, 0, w.nodes.ok)>>
                     \o (IF w.nodes.ok
                         THEN <<Req("storage", 0, 0, w.storages.ok)>>
                              \o (IF w.storages.ok
                                  THEN BackupNodeCalls(w.nodes.data, w.storages.data, w, 1)
                                  ELSE <<>>)
                         ELSE <<>>)
           [] op = "list_recent_tasks" ->
                IF args.node # 0
                THEN <<Req("nodes.tasks", args.node, 0, w.tasks[args.node].ok)>>
                ELSE <<Req("nodes", 0, 0, w.nodes.ok)>>
                     \o (IF w.nodes.ok
                         THEN PerNodeCalls("nodes.tasks", w.nodes.data,
                                           [n \in DOMAIN w.tasks |-> w.tasks[n].ok], 1)
                         ELSE <<>>)
           [] op = "get_node_status" ->
                IF args.node # 0
                THEN <<Req("nodes.status", args.node, 0, w.status[args.node])>>
                ELSE <<Req("nodes", 0, 0, w.nodes.ok)>>
                     \o (IF w.nodes.ok
                         THEN PerNodeCalls("nodes.status", w.nodes.data, w.status, 1)
                         ELSE <<>>)
           [] op = "list_storage_pools" ->
                <<Req("storage", 0, 0, w.storages.ok)>>
                \o (IF w.storages.ok THEN PoolCalls(w.storages.data, w, 1) ELSE <<>>)
           [] op = "check_connection" -> <<Req("version", 0, 0, w.version)>>
           [] OTHER -> <<Req(op, 0, 0, w.body # "first")>>

\* a public proxmox method: it runs _get_api once and then its body, which
\* yields value; w is what the transport answers, firstOk whether the first
\* remote call of the body works
ProxmoxCall(op, args, w, connectOk, firstOk, value) ==
    LET api == _get_api(connectOk)
    IN  /\ tool = "proxmox"
        /\ Idle
        /\ Serial
        /\ api.created <= MaxHandles
        /\ _api_cache' = api.cache
        /\ _cache_time' = api.time
        /\ created' = api.created
        /\ stamper' = IF api.created # created THEN api.created ELSE stamper
        /\ ret' = [op |-> op, args |-> args, w |-> w, api |-> api,
                   calls |-> RemoteCalls(op, args, w, api),
                   usesApi |-> TRUE, hostDown |-> api.tuple \/ ~firstOk,
                   raised |-> FALSE, value |-> value]
        /\ UNCHANGED <<tool, valves, user_valves, now, frames, overlapped>>

\* the clock advances between calls
Tick ==
    /\ tool = "proxmox"
    /\ Idle
    /\ now < MaxTime
    /\ now' = now + 1
    /\ UNCHANGED <<tool, valves, user_valves, _api_cache, _cache_time, created, ret,
                 frames, stamper, overlapped>>

(*************************** proxmoxweaver: the cluster ********************)
MaxNodes == 2
MaxVMs == 1

NodeIds == 1..MaxNodes

RECURSIVE SetToSeq(_)
\* the elements of a set of integers in increasing order
SetToSeq(S) ==
    IF S = {} THEN <<>>
    ELSE LET m == CHOOSE x \in S : \A y \in S : x <= y
         IN  <<m>> \o SetToSeq(S \ {m})

\* what api.nodes.get() can answer: the nodes of a cluster of k nodes, in
\* name order
NodeLists == {SetToSeq(1..k) : k \in 0..MaxNodes}

Range(s) == {s[i] : i \in 1..Len(s)}

\* sequences over S of length at most n
SeqsUpTo(S, n) == UNION {[1..k -> S] : k \in 0..n}

(*************************** proxmoxweaver: list_all_vms *******************)
\* the entries of one node: one per VM, full when the per-VM status call
\* works and basic when it fails
RECURSIVE VmEntries_skip(_, _, _)
VmEntries_skip(node, vms, i) ==
    IF i > Len(vms) THEN <<>>
    ELSE (IF vms[i]
          THEN <<[kind |-> "vm", keys |-> {"vmid", "name", "node", "status"},
                  node |-> node, vmid |-> node * 100 + i, detail |-> "full"]>>
          ELSE <<>>)
         \o VmEntries_skip(node, vms, i + 1)

RECURSIVE VmEntries(_, _, _)
VmEntries(node, vms, i) ==
    IF i > Len(vms) THEN <<>>
    ELSE <<[kind |-> "vm", keys |-> {"vmid", "name", "node", "status"},
            node |-> node, vmid |-> node * 100 + i,
            detail |-> IF vms[i] THEN "full" ELSE "basic"]>>
         \o VmEntries(node, vms, i + 1)

\* the loop over the nodes; ok = FALSE when api.nodes(n).qemu.get() raised
RECURSIVE VmLoop(_, _, _)
VmLoop(nodes, qemu, i) ==
    IF i > Len(nodes) THEN [ok |-> TRUE, items |-> <<>>]
    ELSE IF ~qemu[nodes[i]].ok THEN [ok |-> FALSE, items |-> <<>>]
    ELSE LET rest == VmLoop(nodes, qemu, i + 1)
         IN  [ok |-> rest.ok,
              items |-> VmEntries(nodes[i], qemu[nodes[i]].data, 1) \o rest.items]

list_all_vms_value_swallow(api, w) ==
    IF api.tuple THEN ErrMap("API Connection Error")
    ELSE IF ~w.nodes.ok THEN MsgList
    ELSE LET r == VmLoop(w.nodes.data, w.qemu, 1)
         IN  IF ~r.ok THEN MsgList
             ELSE ListOrMsg(r.items)

\* Tools.list_all_vms
list_all_vms_value(api, w) ==
    IF api.tuple THEN ErrMap("API Connection Error")
    ELSE IF ~w.nodes.ok THEN ErrMap("Failed to list VMs")
    ELSE LET r == VmLoop(w.nodes.data, w.qemu, 1)
         IN  IF ~r.ok THEN ErrMap("Failed to list VMs")
             ELSE ListOrMsg(r.items)

\* what api.nodes(n).qemu.get() can answer: it fails, or lists the VMs, each
\* with whether its status.current call works
QemuOutcomes == {Fail} \cup {Ok(v) : v \in SeqsUpTo(BOOLEAN, MaxVMs)}

VmWorldDown == [nodes |-> Fail, qemu |-> <<>>]

\* the answers of the transport to list_all_vms
list_all_vms ==
    \E connectOk \in Connects :
        \/ ProxmoxCall("list_all_vms", <<>>, VmWorldDown, connectOk, FALSE,
                       list_all_vms_value(_get_api(connectOk), VmWorldDown))
        \/ /\ connectOk
           /\ \E ns \in NodeLists : \E q \in [Range(ns) -> QemuOutcomes] :
                LET w == [nodes |-> Ok(ns), qemu |-> q]
                IN  ProxmoxCall("list_all_vms", <<>>, w, connectOk, TRUE,
                                list_all_vms_value(_get_api(connectOk), w))

(*************************** proxmoxweaver: list_backups *******************)
MaxStorages == 1
MaxBackups == 1

StorageIds == 1..MaxStorages

\* the backup entries of one storage on one node; the storage content also
\* holds an ISO image, which is not a backup and is never listed
RECURSIVE BackupEntries(_, _, _)
BackupEntries(node, storage, k) ==
    IF k = 0 THEN <<>>
    ELSE BackupEntries(node, storage, k - 1)
         \o <<[kind |-> "backup", keys |-> {"volid", "vmid", "node", "storage"},
               node |-> node, storage |-> storage,
               volid |-> (node * 10 + storage) * 10 + k]>>

\* the inner loop over the storages of one node; a content call that fails
\* is skipped
RECURSIVE BackupStorLoop(_, _, _, _)
BackupStorLoop(node, storages, w, j) ==
    IF j > Len(storages) THEN <<>>
    ELSE LET st == storages[j]
         IN  (IF w.backupStore[st] /\ w.content[<<node, st>>].ok
              THEN BackupEntries(node, st, w.content[<<node, st>>].data) ELSE <<>>)
             \o BackupStorLoop(node, storages, w, j + 1)

\* the outer loop over the nodes
RECURSIVE BackupNodeLoop_abort(_, _, _, _)
BackupNodeLoop_abort(nodes, storages, w, i) ==
    IF i > Len(nodes) THEN <<>>
    ELSE IF \E j \in 1..Len(storages) :
               w.backupStore[storages[j]] /\ ~w.content[<<nodes[i], storages[j]>>].ok
    THEN <<>>
    ELSE BackupStorLoop(nodes[i], storages, w, 1)
         \o BackupNodeLoop_abort(nodes, storages, w, i + 1)

RECURSIVE BackupNodeLoop(_, _, _, _)
BackupNodeLoop(nodes, storages, w, i) ==
    IF i > Len(nodes) THEN <<>>
    ELSE BackupStorLoop(nodes[i], storages, w, 1)
         \o BackupNodeLoop(nodes, storages, w, i + 1)

\* the branch taken when storage and node are not both given: every backup
\* of every node, whatever the arguments
BackupsAll(storage, node, w) ==
    BackupNodeLoop(w.nodes.data, w.storages.data, w, 1)

\* Tools.list_backups; an argument that is None (or empty) is 0
list_backups_value(api, storage, node, w) ==
    IF api.tuple THEN ErrList("API Connection Error")
    ELSE IF storage # 0 /\ node # 0
    THEN LET c == w.content[<<node, storage>>]
         IN  IF ~c.ok THEN ErrList("Failed to list backups")
             ELSE ListOrMsg(BackupEntries(node, storage, c.data))
    ELSE IF ~w.nodes.ok \/ ~w.storages.ok THEN ErrList("Failed to list backups")
    ELSE ListOrMsg(BackupsAll(storage, node, w))

\* content[<<n, s>>]: the answer of nodes(n).storage(s).content.get(), the
\* number of backup volumes it lists
ContentOutcomes == {Fail} \cup {Ok(k) : k \in 0..MaxBackups}

NoBackupStore == [st \in StorageIds |-> FALSE]

BackupWorldDown ==
    [nodes |-> Fail, storages |-> Fail, backupStore |-> NoBackupStore, content |-> <<>>]

\* storages: api.storage.get(); backupStore[s]: 'backup' is among the
\* content types of storage s.  In the fan-out branch a node that is down
\* fails every content call, and each node that is up holds k[s] backup
\* volumes on storage s.
list_backups ==
    \E connectOk \in Connects, storage \in {0} \cup StorageIds, node \in {0} \cup NodeIds :
        LET args == [storage |-> storage, node |-> node]
        IN  IF storage # 0 /\ node # 0
            THEN \E c \in ContentOutcomes :
                    LET w == [nodes |-> Fail, storages |-> Fail, backupStore |-> NoBackupStore,
                              content |-> [p \in {<<node, storage>>} |-> c]]
                    IN  /\ ~connectOk => c = Fail
                        /\ ProxmoxCall("list_backups", args, w, connectOk, c.ok,
                                       list_backups_value(_get_api(connectOk), storage, node, w))
            ELSE \/ ProxmoxCall("list_backups", args, BackupWorldDown, connectOk, FALSE,
                                list_backups_value(_get_api(connectOk), storage, node,
                                                   BackupWorldDown))
                 \/ /\ connectOk
                    /\ \E ns \in NodeLists, b \in [StorageIds -> BOOLEAN] :
                         \E down \in SUBSET Range(ns),
                            k \in [{st \in StorageIds : b[st]} -> 0..MaxBackups] :
                            LET c == [p \in Range(ns) \X DOMAIN k |->
                                        IF p[1] \in down THEN Fail ELSE Ok(k[p[2]])]
                                w == [nodes |-> Ok(ns), storages |-> Ok(SetToSeq(StorageIds)),
                                      backupStore |-> b, content |-> c]
                            IN  ProxmoxCall("list_backups", args, w, connectOk, TRUE,
                                            list_backups_value(_get_api(connectOk), storage, node, w))

(*************************** proxmoxweaver: list_recent_tasks **************)
MaxStart == 2
MaxLimit == 2

\* the value of the "starttime" field: strftime of the epoch seconds, or
\* 'unknown' when the field is missing or 0.  The strings are compared as
\* sort keys: 'unknown' sorts above every "YYYY-mm-dd HH:MM:SS".
UnknownKey == MaxStart + 100

starttime_str(t) == IF t = 0 THEN UnknownKey ELSE t

RECURSIVE TaskEntries(_, _, _)
TaskEntries(node, starts, i) ==
    IF i > Len(starts) THEN <<>>
    ELSE <<[kind |-> "task", keys |-> {"upid", "node", "starttime"},
            node |-> node, upid |-> node * 100 + starts[i],
            start |-> starts[i], starttime |-> starttime_str(starts[i])]>>
         \o TaskEntries(node, starts, i + 1)

\* the first k elements of a sequence, s[:k] for k >= 0
Take(s, k) == SubSeq(s, 1, IF k < Len(s) THEN k ELSE Len(s))

\* nodes(n).tasks.get(limit=k): the k most recent tasks of the node's log
TasksGet(log, k) == Take(log, k)

RECURSIVE Insert(_, _)
\* insert entry e into the sequence s, which is sorted by decreasing
\* starttime, after the entries with the same starttime
Insert(s, e) ==
    IF s = <<>> THEN <<e>>
    ELSE IF s[1].starttime >= e.starttime THEN <<s[1]>> \o Insert(Tail(s), e)
    ELSE <<e>> \o s

RECURSIVE SortDesc(_)
\* tasks.sort(key=lambda x: x['starttime'], reverse=True)
SortDesc(s) ==
    IF s = <<>> THEN <<>>
    ELSE Insert(SortDesc(SubSeq(s, 1, Len(s) - 1)), s[Len(s)])

\* the loop over all nodes; a node whose tasks call fails is skipped
RECURSIVE TaskNodeLoop(_, _, _, _)
TaskNodeLoop(nodes, w, perNode, i) ==
    IF i > Len(nodes) THEN <<>>
    ELSE (IF w.tasks[nodes[i]].ok
          THEN TaskEntries(nodes[i], TasksGet(w.tasks[nodes[i]].data, perNode), 1)
          ELSE <<>>)
         \o TaskNodeLoop(nodes, w, perNode, i + 1)

\* the per-node limit of the fan-out
PerNode(limit, n) == limit \div n

\* Tools.list_recent_tasks; node None is 0
list_recent_tasks_value(api, node, limit, w) ==
    IF api.tuple THEN ErrList("API Connection Error")
    ELSE IF node # 0
    THEN IF ~w.tasks[node].ok THEN ErrList("Failed to list tasks")
         ELSE LET tasks == SortDesc(TaskEntries(node, TasksGet(w.tasks[node].data, limit), 1))
              IN  IF tasks = <<>> THEN MsgList ELSE DataList(Take(tasks, limit))
    ELSE IF ~w.nodes.ok THEN ErrList("Failed to list tasks")
    ELSE LET nodes == w.nodes.data
             tasks == SortDesc(TaskNodeLoop(nodes, w,
                          IF nodes = <<>> THEN 0 ELSE PerNode(limit, Len(nodes)), 1))
         IN  IF tasks = <<>> THEN MsgList ELSE DataList(Take(tasks, limit))

\* the elements of a set of integers in decreasing order
RECURSIVE SetToSeqDesc(_)
SetToSeqDesc(S) ==
    IF S = {} THEN <<>>
    ELSE LET m == CHOOSE x \in S : \A y \in S : x >= y
         IN  <<m>> \o SetToSeqDesc(S \ {m})

\* a node's task log, most recent first: one task started at each of the
\* times 1..k
TaskLogs == {SetToSeqDesc(1..k) : k \in 0..MaxStart}

TaskOutcomes == {Fail} \cup {Ok(l) : l \in TaskLogs}

\* a task log whose oldest entry carries no 'starttime' (or 0): the case the
\* code renders as 'unknown'; tried on the branch for one node
TaskLogsUnknown == {SetToSeqDesc(0..k) : k \in 0..MaxStart}

TaskOutcomesOneNode == TaskOutcomes \cup {Ok(l) : l \in TaskLogsUnknown}

TaskWorldDown == [nodes |-> Fail, tasks |-> <<>>]

list_recent_tasks ==
    \E connectOk \in Connects, node \in {0} \cup NodeIds, limit \in 1..MaxLimit :
        LET args == [node |-> node, limit |-> limit]
        IN  IF node # 0
            THEN \E t \in TaskOutcomesOneNode :
                    LET w == [nodes |-> Fail, tasks |-> [n \in {node} |-> t]]
                    IN  /\ ~connectOk => t = Fail
                        /\ ProxmoxCall("list_recent_tasks", args, w, connectOk, t.ok,
                                       list_recent_tasks_value(_get_api(connectOk), node, limit, w))
            ELSE \/ ProxmoxCall("list_recent_tasks", args, TaskWorldDown, connectOk, FALSE,
                                list_recent_tasks_value(_get_api(connectOk), node, limit,
                                                        TaskWorldDown))
                 \/ /\ connectOk
                    /\ \E ns \in NodeLists : \E t \in [Range(ns) -> TaskOutcomes] :
                         LET w == [nodes |-> Ok(ns), tasks |-> t]
                         IN  ProxmoxCall("list_recent_tasks", args, w, connectOk, TRUE,
                                         list_recent_tasks_value(_get_api(connectOk), node, limit, w))

(*************************** proxmoxweaver: get_node_status ****************)
\* the loop over all nodes: a node whose status call fails is reported with
\* an "error" entry of its own
RECURSIVE NodeStatusLoop(_, _, _)
NodeStatusLoop(nodes, w, i) ==
    IF i > Len(nodes) THEN <<>>
    ELSE <<IF w.status[nodes[i]]
           THEN [kind |-> "node", keys |-> {"node", "status", "uptime", "cpu_usage", "memory", "disk"},
                 node |-> nodes[i]]
           ELSE [kind |-> "node", keys |-> {"node", "status", "error"},
                 node |-> nodes[i]]>>
         \o NodeStatusLoop(nodes, w, i + 1)

\* Tools.get_node_status; node None is 0
get_node_status_value(api, node, w) ==
    IF api.tuple THEN ErrMap("API Connection Error")
    ELSE IF node # 0
    THEN IF w.status[node] THEN DataMap({"node", "status", "uptime", "cpu", "memory", "swap"})
         ELSE ErrMap("Failed to get node status")
    ELSE IF ~w.nodes.ok THEN ErrMap("Failed to get node status")
    ELSE DataList(NodeStatusLoop(w.nodes.data, w, 1))

StatusWorldDown == [nodes |-> Fail, status |-> <<>>]

\* status[n]: whether api.nodes(n).status.get() works
get_node_status ==
    \E connectOk \in Connects, node \in {0} \cup NodeIds :
        LET args == [node |-> node]
        IN  IF node # 0
            THEN \E ok \in BOOLEAN :
                    LET w == [nodes |-> Fail, status |-> [n \in {node} |-> ok]]
                    IN  /\ ~connectOk => ~ok
                        /\ ProxmoxCall("get_node_status", args, w, connectOk, ok,
                                       get_node_status_value(_get_api(connectOk), node, w))
            ELSE \/ ProxmoxCall("get_node_status", args, StatusWorldDown, connectOk, FALSE,
                                get_node_status_value(_get_api(connectOk), node, StatusWorldDown))
                 \/ /\ connectOk
                    /\ \E ns \in NodeLists : \E st \in [Range(ns) -> BOOLEAN] :
                         LET w == [nodes |-> Ok(ns), status |-> st]
                         IN  ProxmoxCall("get_node_status", args, w, connectOk, TRUE,
                                         get_node_status_value(_get_api(connectOk), node, w))

(*************************** proxmoxweaver: list_storage_pools *************)
MaxPools == 2

\* the storage pools api.storage.get() can list
PoolIds == 1..MaxPools

\* what the try block of one storage meets: the node list and the status
\* call work ("ok"), the node list is empty ("nonodes"), api.nodes.get()
\* raises ("nodesfail"), or the status call raises ("statusfail")
UsageOutcomes == {"ok", "nonodes", "nodesfail", "statusfail"}

\* the bare except of the try block ran
UsageRaised(u) == u \in {"nodesfail", "statusfail"}

RECURSIVE StoragePoolLoop(_, _, _)
StoragePoolLoop(storages, w, j) ==
    IF j > Len(storages) THEN <<>>
    ELSE LET u == w.usage[storages[j]]
             base == {"storage", "type", "enabled", "shared", "content", "nodes"}
             more == {"total", "used", "available", "usage", "active"}
         IN  <<[kind |-> "storage",
                keys |-> IF u = "nonodes" THEN base ELSE base \cup more,
                storage |-> storages[j],
                usage |-> IF u = "ok" THEN "percent" ELSE IF UsageRaised(u) THEN "N/A" ELSE "absent"]>>
             \o StoragePoolLoop(storages, w, j + 1)

\* Tools.list_storage_pools
list_storage_pools_value(api, w) ==
    IF api.tuple THEN ErrList("API Connection Error")
    ELSE IF ~w.storages.ok THEN ErrList("Failed to list storage pools")
    ELSE DataList(StoragePoolLoop(w.storages.data, w, 1))

PoolWorldDown == [storages |-> Fail, usage |-> <<>>]

\* storages: api.storage.get(); usage[s]: what the try block of storage s meets
list_storage_pools ==
    \E connectOk \in Connects :
        \/ ProxmoxCall("list_storage_pools", <<>>, PoolWorldDown, connectOk, FALSE,
                       list_storage_pools_value(_get_api(connectOk), PoolWorldDown))
        \/ /\ connectOk
           /\ \E S \in SUBSET PoolIds : \E u \in [S -> UsageOutcomes] :
                LET w == [storages |-> Ok(SetToSeq(S)), usage |-> u]
                IN  ProxmoxCall("list_storage_pools", <<>>, w, connectOk, TRUE,
                                list_storage_pools_value(_get_api(connectOk), w))

(*************************** proxmoxweaver: the other methods **************)
\* the methods that answer a failure with {"error": ...}
MapMethods ==
    {"list_all_containers", "get_vm_details", "get_container_details",
     "get_cluster_status", "get_storage_details", "get_vm_network",
     "get_firewall_status", "get_vm_status", "get_container_status"}

\* the methods that answer a failure with [{"error": ...}]
ListMethods ==
    {"get_node_storage", "get_nfs_storages", "get_cluster_log", "list_snapshots",
     "list_templates", "list_users", "list_groups", "list_roles",
     "list_nodes", "list_vms", "list_containers"}

\* the legacy methods hand back the answer of their one remote call as it is
RawMethods ==
    {"list_nodes", "list_vms", "list_containers", "get_vm_status", "get_container_status"}

\* the methods among them that have an action of their own
DetailedMethods ==
    {"get_cluster_status", "get_vm_details", "get_container_details", "list_snapshots"}

\* what the body of such a method meets: its first remote call raises
\* ("first"), a later call or the reshaping of the answer raises outside
\* any inner try ("later"), or nothing raises ("ok")
BodyOutcomes(m) == IF m \in RawMethods THEN {"first", "ok"} ELSE {"first", "later", "ok"}

\* the try/except frame shared by these methods
plain_method_value(api, m, outcome) ==
    IF api.tuple
    THEN IF m \in MapMethods THEN ErrMap("API Connection Error")
         ELSE ErrList("API Connection Error")
    ELSE IF outcome # "ok"
    THEN IF m \in MapMethods THEN ErrMap("Failed") ELSE ErrList("Failed")
    ELSE IF m \in MapMethods THEN DataMap({"data"}) ELSE DataList(<<>>)

plain_method ==
    \E connectOk \in Connects, m \in (MapMethods \cup ListMethods) \ DetailedMethods :
        \E outcome \in BodyOutcomes(m) :
            /\ ~connectOk => outcome = "first"
            /\ ProxmoxCall(m, <<>>, [body |-> outcome], connectOk, outcome # "first",
                           plain_method_value(_get_api(connectOk), m, outcome))

(*************************** proxmoxweaver: help, check_connection *********)
\* Tools.help: a constant mapping, no remote call
help_value == DataMap({"CONNECTION & STATUS", "CONFIGURATION", "TROUBLESHOOTING"})

\* hostDown: whether the configured host happens to be malformed or
\* unreachable while help is called
help ==
    /\ tool = "proxmox"
    /\ Idle
    /\ Serial
    /\ \E hostDown \in BOOLEAN :
         ret' = [op |-> "help", args |-> <<>>, w |-> <<>>,
                 usesApi |-> FALSE, hostDown |-> hostDown,
                 raised |-> FALSE, value |-> help_value]
    /\ UNCHANGED <<tool, valves, user_valves, _api_cache, _cache_time, now, created,
                 frames, stamper, overlapped>>

check_connection_value_unverified(api, versionOk) ==
    IF api.tuple
    THEN [shape |-> "map", keys |-> {"status", "error", "host"}, items |-> <<>>,
          kind |-> "error", status |-> "Failed"]
    ELSE [shape |-> "map", keys |-> {"status", "host", "user", "version", "release"},
          items |-> <<>>, kind |-> "data", status |-> "Connected"]

\* Tools.check_connection; versionOk says whether api.version.get() answers
check_connection_value(api, versionOk) ==
    IF api.tuple
    THEN [shape |-> "map", keys |-> {"status", "error", "host"}, items |-> <<>>,
          kind |-> "error", status |-> "Failed"]
    ELSE IF versionOk
    THEN [shape |-> "map", keys |-> {"status", "host", "user", "version", "release"},
          items |-> <<>>, kind |-> "data", status |-> "Connected"]
    ELSE [shape |-> "map", keys |-> {"status", "error", "host", "suggestion"},
          items |-> <<>>, kind |-> "error", status |-> "Failed"]

check_connection ==
    \E connectOk \in Connects, versionOk \in BOOLEAN :
        /\ ~connectOk => ~versionOk
        /\ ProxmoxCall("check_connection", <<>>, [version |-> versionOk], connectOk, versionOk,
                       check_connection_value(_get_api(connectOk), versionOk))

InitProxmox ==
    /\ tool = "proxmox"
    /\ valves \in [CACHE_TIMEOUT : 0..MaxTimeout]
    /\ user_valves = <<>>
    /\ _api_cache = 0
    /\ _cache_time = NoTime
    /\ now = 0
    /\ created = 0
    /\ ret = NoCall
    /\ SingleThreaded

(*************************** weatherweaver *********************************)
\* the cities the geocoder recognises (a sample), and what it answers
KnownCities == {"Louisville", "Tokyo"}

CityStrings == KnownCities \cup {"Atlantis", ""}

CityInfo(city) ==
    IF city = "Louisville"
    THEN [latitude |-> 38, longitude |-> -85, timezone |-> "America/New_York"]
    ELSE [latitude |-> 35, longitude |-> 139, timezone |-> "Asia/Tokyo"]

\* what the geocoding request meets: requests.get raises ("neterr"), the
\* status is not 200 ("non200"), the body is not JSON ("badjson"), the
\* result set is empty ("empty"), or there is a first result ("ok")
GeoOutcomes(city) ==
    {"neterr", "non200", "badjson"} \cup (IF city \in KnownCities THEN {"ok"} ELSE {"empty"})

get_city_info_lenient(city, geo) ==
    IF geo = "neterr" THEN [raised |-> TRUE, exc |-> "ConnectionError", found |-> FALSE]
    ELSE IF geo = "badjson" THEN [raised |-> TRUE, exc |-> "JSONDecodeError", found |-> FALSE]
    ELSE [raised |-> FALSE, exc |-> None, found |-> TRUE]

\* get_city_info: the coordinates, None, or an exception that leaves it
get_city_info(city, geo) ==
    IF geo = "neterr" THEN [raised |-> TRUE, exc |-> "ConnectionError", found |-> FALSE]
    ELSE IF geo = "badjson" THEN [raised |-> TRUE, exc |-> "JSONDecodeError", found |-> FALSE]
    ELSE IF geo = "ok" THEN [raised |-> FALSE, exc |-> None, found |-> TRUE]
    ELSE [raised |-> FALSE, exc |-> None, found |-> FALSE]

\* what the forecast request meets: a RequestException ("neterr" for a
\* network failure, "httperr" for raise_for_status), a body with an "error"
\* key ("apierror"), a body without the expected section ("nofield"), or a
\* complete body ("ok")
ForecastOutcomes == {"neterr", "httperr", "apierror", "nofield", "ok"}

\* fetch_weather_data: the decoded body (str = FALSE) or an error string
fetch_weather_data(fc) ==
    IF fc \in {"neterr", "httperr", "apierror"}
    THEN [str |-> TRUE, complete |-> FALSE]
    ELSE [str |-> FALSE, complete |-> fc = "ok"]

_get_location_default(city) ==
    IF Truthy(city) THEN city
    ELSE Or(valves.default_location, user_valves.user_location)

\* Tools._get_location
_get_location(city) ==
    IF Truthy(city) THEN city
    ELSE Or(user_valves.user_location, valves.default_location)

\* Tools._get_units
_get_units ==
    IF Or(user_valves.user_unit_system, valves.unit_system) = "metric"
    THEN [temperature_unit |-> "celsius", wind_speed_unit |-> "kmh",
          precipitation_unit |-> "mm", temp_symbol |-> "C",
          wind_symbol |-> "km/h", precip_symbol |-> "mm"]
    ELSE [temperature_unit |-> "fahrenheit", wind_speed_unit |-> "mph",
          precipitation_unit |-> "inch", temp_symbol |-> "F",
          wind_symbol |-> "mph", precip_symbol |-> "in"]

Min_first(a, b) == a

Min(a, b) == IF a < b THEN a ELSE b
Max(a, b) == IF a > b THEN a ELSE b

NoParams == [latitude |-> 0, longitude |-> 0, timezone |-> None,
             temperature_unit |-> None, wind_speed_unit |-> None,
             precipitation_unit |-> None, forecast_days |-> 0]

\* a returned string
Text(kind, city, days, symbol) ==
    [shape |-> "str", keys |-> {}, items |-> <<>>, kind |-> kind,
     city |-> city, days |-> days, temp_symbol |-> symbol]

\* the temperature_2m values of a forecast body that are tried, in tenths
\* of a degree: -1.5, -0.4, 0.5, 9.5, 72.4 and 100.6
Temps == {-15, -4, 5, 95, 724, 1006}

\* round(x) of a float given in tenths: to the nearest integer, a half to
\* the even neighbour
round(t10) ==
    LET q == t10 \div 10
        r == t10 % 10
    IN  IF r < 5 THEN q
        ELSE IF r > 5 THEN q + 1
        ELSE IF q % 2 = 0 THEN q ELSE q + 1

\* the decimal digits of a natural number
RECURSIVE Digits(_)
Digits(n) == IF n < 10 THEN <<n>> ELSE Digits(n \div 10) \o <<n % 10>>

\* str(n) of an integer: an optional minus sign and the digits
IntStr(n) == [neg |-> n < 0, digits |-> Digits(IF n < 0 THEN -n ELSE n)]

current_report_units(city, temp) ==
    [shape |-> "str", keys |-> {}, items |-> <<>>, kind |-> "report",
     city |-> city, days |-> 1, temp_symbol |-> _get_units.temp_symbol,
     temp |-> IntStr(round(temp))]

\* the report of get_current_weather: "Current weather for {city} ...
\* **Temperature:** {temp}°F ..." with temp = round(temperature_2m)
current_report(city, temp) ==
    [shape |-> "str", keys |-> {}, items |-> <<>>, kind |-> "report",
     city |-> city, days |-> 1, temp_symbol |-> "F",
     temp |-> IntStr(round(temp))]

\* the record of one weather call; temp is the temperature_2m of the
\* forecast body (0 when there is none)
WeatherRet(op, args, geo, fc, temp, loc, nGeo, nFc, params, raised, exc, value) ==
    [op |-> op, args |-> args, geo |-> geo, fc |-> fc, temperature_2m |-> temp,
     location |-> loc,
     geoRequests |-> nGeo, forecastRequests |-> nFc, params |-> params,
     raised |-> raised, exc |-> exc, value |-> value]

\* Tools.get_current_weather
get_current_weather_ret(city, geo, fc, temp) ==
    LET op == "get_current_weather"
        args == [city |-> city, days |-> 1]
        loc == _get_location(city)
        info == get_city_info(loc, geo)
        params == [latitude |-> CityInfo(loc).latitude, longitude |-> CityInfo(loc).longitude,
                   timezone |-> CityInfo(loc).timezone,
                   temperature_unit |-> "fahrenheit", wind_speed_unit |-> "mph",
                   precipitation_unit |-> "inch", forecast_days |-> 1]
        data == fetch_weather_data(fc)
    IN  IF ~Truthy(loc)
        THEN WeatherRet(op, args, geo, fc, temp, loc, 0, 0, NoParams, FALSE, None,
                        Text("need_city", loc, 0, None))
        ELSE IF info.raised
        THEN WeatherRet(op, args, geo, fc, temp, loc, 1, 0, NoParams, TRUE, info.exc, NoValue)
        ELSE IF ~info.found
        THEN WeatherRet(op, args, geo, fc, temp, loc, 1, 0, NoParams, FALSE, None,
                        Text("not_found", loc, 0, None))
        ELSE IF data.str
        THEN WeatherRet(op, args, geo, fc, temp, loc, 1, 1, params, FALSE, None,
                        Text("fetch_error", None, 0, None))
        ELSE IF ~data.complete
        THEN WeatherRet(op, args, geo, fc, temp, loc, 1, 1, params, TRUE, "KeyError", NoValue)
        ELSE WeatherRet(op, args, geo, fc, temp, loc, 1, 1, params, FALSE, None,
                        current_report(loc, temp))

\* Tools.get_weather_forecast; the daily values of the body are not modelled
get_weather_forecast_ret(city, days0, geo, fc) ==
    LET op == "get_weather_forecast"
        args == [city |-> city, days |-> days0]
        loc == _get_location(city)
        units == _get_units
        temp == 0
        days == Max(1, Min(16, days0))
        info == get_city_info(loc, geo)
        params == [latitude |-> CityInfo(loc).latitude, longitude |-> CityInfo(loc).longitude,
                   timezone |-> CityInfo(loc).timezone,
                   temperature_unit |-> units.temperature_unit,
                   wind_speed_unit |-> units.wind_speed_unit,
                   precipitation_unit |-> units.precipitation_unit,
                   forecast_days |-> days]
        data == fetch_weather_data(fc)
    IN  IF ~Truthy(loc)
        THEN WeatherRet(op, args, geo, fc, temp, loc, 0, 0, NoParams, FALSE, None,
                        Text("need_city", loc, 0, None))
        ELSE IF info.raised
        THEN WeatherRet(op, args, geo, fc, temp, loc, 1, 0, NoParams, TRUE, info.exc, NoValue)
        ELSE IF ~info.found
        THEN WeatherRet(op, args, geo, fc, temp, loc, 1, 0, NoParams, FALSE, None,
                        Text("not_found", loc, 0, None))
        ELSE IF data.str
        THEN WeatherRet(op, args, geo, fc, temp, loc, 1, 1, params, FALSE, None,
                        Text("fetch_error", None, 0, None))
        ELSE IF ~data.complete
        THEN WeatherRet(op, args, geo, fc, temp, loc, 1, 1, params, TRUE, "KeyError", NoValue)
        ELSE WeatherRet(op, args, geo, fc, temp, loc, 1, 1, params, FALSE, None,
                        Text("report", loc, days, units.temp_symbol))

\* the days arguments tried: below, inside and above the range 1..16
DaysArgs == {-3, 0, 1, 7, 16, 17, 40}

WeatherFrame_remember ==
    /\ user_valves' = [user_valves EXCEPT !.user_location = ret'.location]
    /\ UNCHANGED <<tool, valves, _api_cache, _cache_time, now, created,
                 frames, stamper, overlapped>>

\* the weather methods assign no attribute of the instance
WeatherFrame == UNCHANGED <<tool, valves, user_valves, _api_cache, _cache_time, now, created,
                 frames, stamper, overlapped>>

\* the requests a call issues depend on the resolved location: no request
\* without one, no forecast request without a geocoding result
get_current_weather ==
    /\ tool = "weather"
    /\ Idle
    /\ \E city \in CityStrings \cup {None} :
         LET loc == _get_location(city)
         IN  \E geo \in IF Truthy(loc) THEN GeoOutcomes(loc) ELSE {"none"} :
             \E fc \in IF geo = "ok" THEN ForecastOutcomes ELSE {"none"} :
             \E temp \in IF fc = "ok" THEN Temps ELSE {0} :
                ret' = get_current_weather_ret(city, geo, fc, temp)
    /\ WeatherFrame

get_weather_forecast ==
    /\ tool = "weather"
    /\ Idle
    /\ \E city \in CityStrings \cup {None}, days \in DaysArgs :
         LET loc == _get_location(city)
         IN  \E geo \in IF Truthy(loc) THEN GeoOutcomes(loc) ELSE {"none"} :
             \E fc \in IF geo = "ok" THEN ForecastOutcomes ELSE {"none"} :
                ret' = get_weather_forecast_ret(city, days, geo, fc)
    /\ WeatherFrame

UnitStrings == {"imperial", "metric"}

InitWeather ==
    /\ tool = "weather"
    /\ valves \in [default_location : CityStrings, unit_system : UnitStrings]
    /\ user_valves \in [user_location : CityStrings \cup {None},
                        user_unit_system : UnitStrings \cup {None}]
    /\ _api_cache = 0
    /\ _cache_time = NoTime
    /\ now = 0
    /\ created = 0
    /\ ret = NoCall
    /\ SingleThreaded

(*************************** proxmoxweaver: the formatting helpers *********)
\* the frame of a helper: a pure function of its arguments, applied by the
\* public methods while they reshape an answer
HelperCall(op, args, value) ==
    /\ tool = "proxmox"
    /\ Idle
    /\ Serial
    /\ ret' = [op |-> op, args |-> args, w |-> <<>>, usesApi |-> FALSE,
               hostDown |-> FALSE, raised |-> FALSE, value |-> value]
    /\ UNCHANGED <<tool, valves, user_valves, _api_cache, _cache_time, now, created,
                 frames, stamper, overlapped>>

\* the uptimes tried, in seconds: every combination of 0, 1 and 2 days, of
\* 0, 1 and 23 hours, of 0, 1 and 59 minutes and of 0 and 59 seconds
UptimeArgs ==
    {d * 86400 + h * 3600 + m * 60 + sec :
        d \in {0, 1, 2}, h \in {0, 1, 23}, m \in {0, 1, 59}, sec \in {0, 59}}

Part_zero(n, u) == <<0, u>>

\* one "{n}{u}" field of the uptime string: the number and the unit letter
Part(n, u) == <<n, u>>

\* a string made of "{n}{u}" fields separated by blanks
UptimeStr(parts) ==
    [shape |-> "str", keys |-> {}, items |-> <<>>, kind |-> "uptime", parts |-> parts]

_format_uptime_days(seconds) ==
    LET days == seconds \div 86400
        hours == (seconds % 86400) \div 3600
        minutes == (seconds % 3600) \div 60
    IN  UptimeStr(<<Part(days, "d"), Part(hours, "h"), Part(minutes, "m")>>)

\* Tools._format_uptime
_format_uptime(seconds) ==
    LET days == seconds \div 86400
        hours == (seconds % 86400) \div 3600
        minutes == (seconds % 3600) \div 60
    IN  IF days > 0
        THEN UptimeStr(<<Part(days, "d"), Part(hours, "h"), Part(minutes, "m")>>)
        ELSE IF hours > 0
        THEN UptimeStr(<<Part(hours, "h"), Part(minutes, "m")>>)
        ELSE UptimeStr(<<Part(minutes, "m")>>)

FormatUptime ==
    \E seconds \in UptimeArgs :
        HelperCall("_format_uptime", [seconds |-> seconds], _format_uptime(seconds))

\* the (used, total) pairs tried
UsedArgs == {0, 1, 2, 3, 5, 8}
TotalArgs == {0, 1, 3, 4, 8, 16}

RECURSIVE GCD(_, _)
GCD(a, b) == IF b = 0 THEN a ELSE GCD(b, a % b)

\* a float, kept as the exact fraction num/den in lowest terms (the error of
\* the binary representation, below 1e-13 here, is left out)
Float(num, den) ==
    LET g == GCD(num, den)
    IN  [shape |-> "float", keys |-> {}, items |-> <<>>, kind |-> "number",
         num |-> num \div g, den |-> den \div g]

\* the nearest integer to a/b for a >= 0, b > 0, a half to the even neighbour
RoundDiv(a, b) ==
    LET q == a \div b
        r == a % b
    IN  IF 2 * r < b THEN q
        ELSE IF 2 * r > b THEN q + 1
        ELSE IF q % 2 = 0 THEN q ELSE q + 1

_calculate_percentage_rounded(used, total) ==
    IF total = 0 THEN Float(0, 1)
    ELSE Float(RoundDiv(used * 1000, total), 10)

\* Tools._calculate_percentage
_calculate_percentage(used, total) ==
    IF total = 0 THEN Float(0, 1)
    ELSE Float(used * 100, total)

CalculatePercentage ==
    \E used \in UsedArgs, total \in TotalArgs :
        HelperCall("_calculate_percentage", [used |-> used, total |-> total],
                   _calculate_percentage(used, total))

\* a byte count, written in base 1024 so that counts up to the petabyte
\* range fit: b = top * 1024^e + mid * 1024^(e-1) + low * 1024^(e-2), with
\* 1 <= top <= 1023 except for 0 (e = 0, top = 0) and for counts of 1024 PB
\* and more (e = 5, top >= 1024)
Bytes(e, top, mid, low) == [e |-> e, top |-> top, mid |-> mid, low |-> low]

\* the byte counts tried: 0, 1 and 1023 bytes, and in every larger unit the
\* lowest, the highest and (from 1024 PB on) an overlarge leading digit with
\* fractions 0, 1/8 (a tie of the two-decimal rounding), 1/2 and just below 1
BytesArgs ==
    {Bytes(0, top, 0, 0) : top \in {0, 1, 1023}}
    \cup {Bytes(1, top, mid, 0) : top \in {1, 1023}, mid \in {0, 128, 512, 1023}}
    \cup {Bytes(e, top, mid, low) :
            e \in 2..5, top \in {1, 1023}, mid \in {0, 128, 512, 1023}, low \in {0, 5, 1023}}
    \cup {Bytes(5, 2048, mid, low) : mid \in {0, 128, 512, 1023}, low \in {0, 5, 1023}}

Units == <<"B", "KB", "MB", "GB", "TB", "PB">>

\* f"{value:.2f} {unit}": the number of hundredths and the unit
BytesStr(hundredths, unit) ==
    [shape |-> "str", keys |-> {}, items |-> <<>>, kind |-> "bytes",
     hundredths |-> hundredths, unit |-> unit]

\* value < 1024.0 for value = b / 1024^i, i <= b.e
Below1024(b, i) == i = b.e /\ b.top < 1024

\* f"{value:.2f}" for value = b / 1024^b.e, as a number of hundredths: the
\* float is exact, and the rounding is to the nearest, a tie to the even
TwoDecimals(b) == b.top * 100 + RoundDiv((b.mid * 1024 + b.low) * 100, 1024 * 1024)

RECURSIVE _format_bytes_gb(_, _)
_format_bytes_gb(b, i) ==
    IF i < 5
    THEN IF Below1024(b, i) THEN BytesStr(TwoDecimals(b), "GB")
         ELSE _format_bytes_gb(b, i + 1)
    ELSE BytesStr(TwoDecimals(b), "GB")

\* Tools._format_bytes, from the i-th pass of its loop on (i = 0 is the
\* call); value is b / 1024^i
RECURSIVE _format_bytes(_, _)
_format_bytes(b, i) ==
    IF i < 5
    THEN IF Below1024(b, i) THEN BytesStr(TwoDecimals(b), Units[i + 1])
         ELSE _format_bytes(b, i + 1)
    ELSE BytesStr(TwoDecimals(b), "PB")

FormatBytes ==
    \E b \in BytesArgs :
        HelperCall("_format_bytes", [bytes_value |-> b], _format_bytes(b, 0))

(*************************** proxmoxweaver: get_cluster_status *************)
\* f"{x:.1f}%" of a float x >= 0: the tenths that are shown
OneDecimal(x) == <<"%.1f%", RoundDiv(x.num * 10, x.den)>>

\* the literal "0%"
ZeroPercent == <<"0%", 0>>

\* an entry of api.cluster.resources.get(type='node'): a node that is
\* online has 2 cores, half busy, and n of 4 units of memory in use; a node
\* that is offline reports no figures
NodeResource(n, online) ==
    IF online
    THEN [node |-> n, online |-> TRUE, cpu |-> 50, maxcpu |-> 2, mem |-> n, maxmem |-> 4]
    ELSE [node |-> n, online |-> FALSE, cpu |-> 0, maxcpu |-> 0, mem |-> 0, maxmem |-> 0]

\* the loop over the node resources: the totals and the entries of "details"
RECURSIVE NodeTotals(_, _)
NodeTotals(resources, i) ==
    IF i > Len(resources)
    THEN [total_cpu |-> 0, total_memory |-> 0, total_memory_used |-> 0,
          online_nodes |-> 0, nodes_info |-> <<>>]
    ELSE LET r == resources[i]
             rest == NodeTotals(resources, i + 1)
         IN  [total_cpu |-> r.maxcpu + rest.total_cpu,
              total_memory |-> r.maxmem + rest.total_memory,
              total_memory_used |-> r.mem + rest.total_memory_used,
              online_nodes |-> (IF r.online THEN 1 ELSE 0) + rest.online_nodes,
              nodes_info |-> <<<<r.node, r.online>>>> \o rest.nodes_info]

\* the entries of api.cluster.resources.get(type='vm'): <<type, running>>
VmKinds == {"qemu", "lxc"} \X BOOLEAN

RECURSIVE CountVms_anytype(_, _, _, _)
CountVms_anytype(vms, type, runningOnly, i) ==
    IF i > Len(vms) THEN 0
    ELSE (IF (runningOnly \/ vms[i][1] = type) /\ (runningOnly => vms[i][2]) THEN 1 ELSE 0)
         + CountVms_anytype(vms, type, runningOnly, i + 1)

\* sum(1 for vm in vms if vm['type'] == type [and vm.get('status') == 'running'])
RECURSIVE CountVms(_, _, _, _)
CountVms(vms, type, runningOnly, i) ==
    IF i > Len(vms) THEN 0
    ELSE (IF vms[i][1] = type /\ (runningOnly => vms[i][2]) THEN 1 ELSE 0)
         + CountVms(vms, type, runningOnly, i + 1)

\* Tools.get_cluster_status; the byte strings of the memory and storage
\* blocks are not modelled
get_cluster_status_value(api, w) ==
    IF api.tuple THEN ErrMap("API Connection Error")
    ELSE IF w.body # "ok" THEN ErrMap("Failed")
    ELSE LET t == NodeTotals(w.resources, 1)
             vm_count == CountVms(w.vms, "qemu", FALSE, 1)
             ct_count == CountVms(w.vms, "lxc", FALSE, 1)
             running_vms == CountVms(w.vms, "qemu", TRUE, 1)
             running_cts == CountVms(w.vms, "lxc", TRUE, 1)
         IN  [shape |-> "map",
              keys |-> {"name", "version", "nodes", "resources", "virtual_machines",
                        "containers", "quorate"},
              items |-> <<>>, kind |-> "data",
              nodes |-> [total |-> Len(t.nodes_info), online |-> t.online_nodes,
                         details |-> t.nodes_info],
              cpu |-> [total_cores |-> t.total_cpu,
                       usage |-> IF t.total_memory > 0
                                 THEN OneDecimal(Float(t.total_memory_used * 100,
                                                       t.total_memory))
                                 ELSE ZeroPercent],
              memory |-> [usage |-> OneDecimal(_calculate_percentage(t.total_memory_used,
                                                                    t.total_memory))],
              virtual_machines |-> [total |-> vm_count, running |-> running_vms,
                                    stopped |-> vm_count - running_vms],
              containers |-> [total |-> ct_count, running |-> running_cts,
                              stopped |-> ct_count - running_cts]]

\* body: the first request (cluster status) raises ("first"), one of the two
\* resource requests raises ("later"), or all three are answered ("ok")
get_cluster_status ==
    \E connectOk \in Connects :
        \/ \E outcome \in {"first", "later"} :
              LET w == [body |-> outcome, resources |-> <<>>, vms |-> <<>>]
              IN  /\ ~connectOk => outcome = "first"
                  /\ ProxmoxCall("get_cluster_status", <<>>, w, connectOk, outcome # "first",
                                 get_cluster_status_value(_get_api(connectOk), w))
        \/ /\ connectOk
           /\ \E ns \in NodeLists : \E on \in [Range(ns) -> BOOLEAN] :
              \E vms \in SeqsUpTo(VmKinds, MaxVMs) :
                LET w == [body |-> "ok",
                          resources |-> [i \in 1..Len(ns) |-> NodeResource(ns[i], on[ns[i]])],
                          vms |-> vms]
                IN  ProxmoxCall("get_cluster_status", <<>>, w, connectOk, TRUE,
                                get_cluster_status_value(_get_api(connectOk), w))

(*************************** proxmoxweaver: snapshots ***********************)
\* the snapshots a guest has at most
MaxSnaps == 1

\* the name 'current' of the entry that stands for the running state; the
\* snapshots proper are named 1, 2, ...
CurrentName == 0

\* the answers of ....snapshot.get(): the snapshots, with or without the
\* entry 'current' after them
SnapLists ==
    {[i \in 1..k |-> i] \o c : k \in 0..MaxSnaps, c \in {<<>>, <<CurrentName>>}}

SnapOutcomes == {Fail} \cup {Ok(l) : l \in SnapLists}

\* the inner try around snapshot.get() in the two detail methods
SnapshotsOrEmpty(snaps) == IF snaps.ok THEN snaps.data ELSE <<>>

\* Tools.get_vm_details and Tools.get_container_details, which differ in the
\* endpoint (qemu, lxc) and in keys that are not modelled
guest_details_value(api, w) ==
    IF api.tuple THEN ErrMap("API Connection Error")
    ELSE IF w.body # "ok" THEN ErrMap("Failed")
    ELSE LET snapshots == SnapshotsOrEmpty(w.snaps)
         IN  [shape |-> "map", keys |-> {"vmid", "node", "name", "status", "snapshots"},
              items |-> <<>>, kind |-> "data",
              snapshots |-> IF snapshots # <<>> THEN Len(snapshots) ELSE 0]

\* body: status.current.get() raises ("first"), config.get() or the
\* reshaping raises ("later"), or neither does ("ok")
guest_details ==
    \E connectOk \in Connects, m \in {"get_vm_details", "get_container_details"} :
        \/ \E outcome \in {"first", "later"} :
              LET w == [body |-> outcome, snaps |-> Fail]
              IN  /\ ~connectOk => outcome = "first"
                  /\ ProxmoxCall(m, <<>>, w, connectOk, outcome # "first",
                                 guest_details_value(_get_api(connectOk), w))
        \/ /\ connectOk
           /\ \E snaps \in SnapOutcomes :
                LET w == [body |-> "ok", snaps |-> snaps]
                IN  ProxmoxCall(m, <<>>, w, connectOk, TRUE,
                                guest_details_value(_get_api(connectOk), w))

\* snap_info of one entry of the answer
SnapInfo(name) ==
    [kind |-> "data",
     keys |-> {"name", "description", "creation_time", "parent", "vmstate", "ram_included"},
     name |-> name]

\* the loop of list_snapshots: the entries not named 'current'
RECURSIVE SnapshotList(_, _)
SnapshotList(snapshots, i) ==
    IF i > Len(snapshots) THEN <<>>
    ELSE (IF snapshots[i] # CurrentName THEN <<SnapInfo(snapshots[i])>> ELSE <<>>)
         \o SnapshotList(snapshots, i + 1)

\* Tools.list_snapshots
list_snapshots_value(api, w) ==
    IF api.tuple THEN ErrList("API Connection Error")
    ELSE IF w.body # "ok" THEN ErrList("Failed")
    ELSE ListOrMsg(SnapshotList(w.snaps.data, 1))

\* body: snapshot.get() raises ("first"), the loop raises ("later"), or
\* neither does ("ok")
list_snapshots ==
    \E connectOk \in Connects, vm_type \in {"qemu", "lxc"} :
        \/ \E outcome \in {"first", "later"} :
              LET w == [body |-> outcome, snaps |-> Fail]
              IN  /\ ~connectOk => outcome = "first"
                  /\ ProxmoxCall("list_snapshots", [vm_type |-> vm_type], w, connectOk,
                                 outcome # "first",
                                 list_snapshots_value(_get_api(connectOk), w))
        \/ /\ connectOk
           /\ \E l \in SnapLists :
                LET w == [body |-> "ok", snaps |-> Ok(l)]
                IN  ProxmoxCall("list_snapshots", [vm_type |-> vm_type], w, connectOk, TRUE,
                                list_snapshots_value(_get_api(connectOk), w))

(*************************** proxmoxweaver: _get_api, interleaved **********)
\* the host threads that call one instance at the same time
Threads == {1, 2}

\* a thread that is not inside _get_api
NoFrame == [pc |-> "idle", h |-> 0]

\* thread t is inside _get_api
Running(t) == frames[t].pc # "idle"

\* frames with thread t moved to pc, holding the constructed handle h
Goto(t, pc, h) == [frames EXCEPT ![t] = [pc |-> pc, h |-> h]]

\* what a step of _get_api leaves alone besides the attributes it assigns
ThreadFrame == UNCHANGED <<tool, valves, user_valves, now, ret>>

\* thread t calls _get_api
Enter(t) ==
    /\ tool = "proxmox"
    /\ ~Serial
    /\ ~Running(t)
    /\ frames' = Goto(t, "check", 0)
    /\ overlapped' = (overlapped \/ \E u \in Threads \ {t} : Running(u))
    /\ ThreadFrame
    /\ UNCHANGED <<_api_cache, _cache_time, created, stamper>>

\* the test of the cached connection
Check(t) ==
    /\ ~Serial
    /\ frames[t].pc = "check"
    /\ frames' = Goto(t, IF CacheFresh THEN "return" ELSE "create", 0)
    /\ ThreadFrame
    /\ UNCHANGED <<_api_cache, _cache_time, created, stamper, overlapped>>

\* importing proxmoxer and constructing ProxmoxAPI(...): the right-hand
\* side of the assignment; when it raises, the call returns (None, message)
Create(t) ==
    /\ ~Serial
    /\ frames[t].pc = "create"
    /\ \E connectOk \in BOOLEAN :
         IF connectOk
         THEN /\ created < MaxHandles
              /\ created' = created + 1
              /\ frames' = Goto(t, "store", created + 1)
         ELSE /\ created' = created
              /\ frames' = Goto(t, "idle", 0)
    /\ ThreadFrame
    /\ UNCHANGED <<_api_cache, _cache_time, stamper, overlapped>>

\* self._api_cache = <the new handle>
Store(t) ==
    /\ ~Serial
    /\ frames[t].pc = "store"
    /\ _api_cache' = frames[t].h
    /\ frames' = Goto(t, "stamp", frames[t].h)
    /\ ThreadFrame
    /\ UNCHANGED <<_cache_time, created, stamper, overlapped>>

Stamp_once(t) ==
    /\ ~Serial
    /\ frames[t].pc = "stamp"
    /\ _cache_time' = (IF _cache_time = NoTime THEN now ELSE _cache_time)
    /\ stamper' = (IF _cache_time = NoTime THEN frames[t].h ELSE stamper)
    /\ frames' = Goto(t, "return", frames[t].h)
    /\ ThreadFrame
    /\ UNCHANGED <<_api_cache, created, overlapped>>

\* self._cache_time = datetime.now()
Stamp(t) ==
    /\ ~Serial
    /\ frames[t].pc = "stamp"
    /\ _cache_time' = now
    /\ stamper' = frames[t].h
    /\ frames' = Goto(t, "return", frames[t].h)
    /\ ThreadFrame
    /\ UNCHANGED <<_api_cache, created, overlapped>>

\* return self._api_cache
Return(t) ==
    /\ ~Serial
    /\ frames[t].pc = "return"
    /\ frames' = Goto(t, "idle", 0)
    /\ ThreadFrame
    /\ UNCHANGED <<_api_cache, _cache_time, created, stamper, overlapped>>

\* an instance that two host threads share
InitThreads ==
    /\ tool = "proxmox"
    /\ valves \in [CACHE_TIMEOUT : 0..MaxTimeout]
    /\ user_valves = <<>>
    /\ _api_cache = 0
    /\ _cache_time = NoTime
    /\ now = 0
    /\ created = 0
    /\ ret = NoCall
    /\ frames = [t \in Threads |-> NoFrame]
    /\ stamper = 0
    /\ overlapped = FALSE

(*************************** specification *********************************)
Init == InitProxmox \/ InitTime \/ InitWeather \/ InitThreads

NextProxmox ==
    \/ Tick
    \/ list_all_vms
    \/ list_backups
    \/ list_recent_tasks
    \/ get_node_status
    \/ list_storage_pools
    \/ plain_method
    \/ get_cluster_status
    \/ guest_details
    \/ list_snapshots
    \/ help
    \/ check_connection

NextTime ==
    \/ get_current_date
    \/ get_current_time
    \/ get_current_datetime

NextWeather ==
    \/ get_current_weather
    \/ get_weather_forecast

NextHelpers ==
    \/ Tick
    \/ FormatUptime
    \/ CalculatePercentage
    \/ FormatBytes

NextThreads ==
    \/ Tick
    \/ \E t \in Threads : Enter(t)
    \/ \E t \in Threads : Check(t)
    \/ \E t \in Threads : Create(t)
    \/ \E t \in Threads : Store(t)
    \/ \E t \in Threads : Stamp(t)
    \/ \E t \in Threads : Return(t)

Next ==
    \/ Deliver
    \/ NextProxmox
    \/ NextTime
    \/ NextWeather
    \/ NextHelpers
    \/ NextThreads

Spec == Init /\ [][Next]_vars

\* one instance of the Proxmox tool
SpecProxmox == InitProxmox /\ [][Deliver \/ NextProxmox]_vars

\* one instance of the time tool
SpecTime == InitTime /\ [][Deliver \/ NextTime]_vars

\* one instance of the weather tool
SpecWeather == InitWeather /\ [][Deliver \/ NextWeather]_vars

\* one instance of the Proxmox tool, its formatting helpers only
SpecHelpers == InitProxmox /\ [][Deliver \/ NextHelpers]_vars

\* one instance of the Proxmox tool that two host threads call at once
SpecThreads == InitThreads /\ [][NextThreads]_vars

(*************************** properties ************************************)
\* the last call was a Proxmox method that went through _get_api
ApiCall == tool = "proxmox" /\ ~Idle /\ ret.usesApi

\* the stored handle was fresh when the last call started
WasFresh(a) ==
    a.pre.cache # 0 /\ a.pre.time # NoTime /\ a.pre.at - a.pre.time < a.pre.timeout

Reused(a) ==
    /\ ~a.tuple /\ a.api = a.pre.cache
    /\ _api_cache = a.pre.cache /\ _cache_time = a.pre.time

Recreated(a) ==
    /\ ~a.tuple /\ a.api # 0 /\ a.api # a.pre.cache
    /\ _api_cache = a.api /\ _cache_time = a.pre.at

\* C1 as stated: _get_api returns the stored handle only while the time
\* since its creation is strictly less than CACHE_TIMEOUT, and in every
\* other case creates a new handle, stores it and records the current time.
C1_Original ==
    ApiCall => IF WasFresh(ret.api) THEN Reused(ret.api) ELSE Recreated(ret.api)

\* C1 amended: _get_api returns the stored handle exactly while the time
\* since its creation is strictly less than CACHE_TIMEOUT; in every other
\* case it attempts to create a new handle and, when the creation succeeds,
\* stores the new handle and records the current time.
C1_CacheReuse ==
    ApiCall =>
        /\ WasFresh(ret.api) => Reused(ret.api)
        /\ (~WasFresh(ret.api) /\ ret.api.pre.connectOk) => Recreated(ret.api)
        /\ (~ret.api.tuple /\ ret.api.api = ret.api.pre.cache) => WasFresh(ret.api)

\* a handle whose age reached a positive CACHE_TIMEOUT was replaced
C1_Witness ==
    /\ ApiCall
    /\ ret.api.pre.cache # 0
    /\ ret.api.pre.timeout > 0
    /\ ret.api.pre.at - ret.api.pre.time >= ret.api.pre.timeout
    /\ Recreated(ret.api)

\* C2 as stated: with a malformed or unreachable host every public method of
\* the Proxmox tool returns a mapping, or a list of mappings, holding the
\* key "error", and does not raise.
C2_Original ==
    (tool = "proxmox" /\ ~Idle /\ ret.hostDown) => (~ret.raised /\ HasError(ret.value))

\* C2 amended: with a malformed or unreachable host every public method of
\* the Proxmox tool except help returns a mapping, or a list of mappings,
\* holding the key "error", and does not raise; help makes no remote call
\* and returns its constant mapping.
C2_ErrorOnBadHost ==
    (tool = "proxmox" /\ ~Idle /\ ret.hostDown) =>
        /\ ~ret.raised
        /\ ret.op # "help" => HasError(ret.value)
        /\ ret.op = "help" => ret.value = help_value

\* list_all_vms met a node list call that failed on a working connection
C2_Witness ==
    /\ tool = "proxmox" /\ ~Idle
    /\ ret.op = "list_all_vms"
    /\ ret.hostDown /\ ~ret.api.tuple
    /\ HasError(ret.value)

\* C3: no public method of the three tools lets an exception escape; every
\* failure (transport failure, error status, missing field, unknown city,
\* unknown timezone) ends in a returned value.
C3_NoEscape == ~Idle => (~ret.raised /\ ret.value.shape \in {"map", "list", "str"})

\* the last call failed: the connection or the first remote call (proxmox),
\* no location, a geocoding miss or error status, or a forecast error (weather)
Failed ==
    /\ ~Idle
    /\ ~ret.raised
    /\ \/ tool = "proxmox" /\ ret.usesApi /\ ret.hostDown
       \/ tool = "weather" /\ \/ ~Truthy(ret.location)
                              \/ ret.geo \in {"non200", "empty"}
                              \/ ret.fc \in {"neterr", "httperr", "apierror"}

\* C4 as stated: every failure value is a mapping with the key "error".
C4_Original ==
    Failed => (ret.value.shape = "map" /\ "error" \in ret.value.keys)

\* the Proxmox methods that answer a failure with a list
ListFailOps == ListMethods \cup {"list_storage_pools", "list_backups", "list_recent_tasks"}

\* C4 amended: a failure value has one of three shapes: the Proxmox methods
\* declared to return a list return [{"error": msg}] (the key is on the one
\* element, not on the value), the other Proxmox methods return
\* {"error": msg, ...}, and the weather methods return a plain message string.
C4_FailureShape ==
    Failed =>
        IF tool = "weather" THEN ret.value.shape = "str"
        ELSE IF ret.op \in ListFailOps
        THEN /\ ret.value.shape = "list"
             /\ Len(ret.value.items) = 1
             /\ "error" \in ret.value.items[1].keys
        ELSE ret.value.shape = "map" /\ "error" \in ret.value.keys

\* list_backups failed and returned the one-element list
C4_Witness ==
    /\ Failed
    /\ tool = "proxmox"
    /\ ret.op = "list_backups"
    /\ ret.value.shape = "list"

RECURSIVE SumVMs(_, _, _)
\* the sum of the per-node VM counts
SumVMs(nodes, qemu, i) ==
    IF i > Len(nodes) THEN 0
    ELSE Len(qemu[nodes[i]].data) + SumVMs(nodes, qemu, i + 1)

\* list_all_vms got the node list and every per-node VM list
VmListsOk ==
    /\ tool = "proxmox" /\ ~Idle
    /\ ret.op = "list_all_vms"
    /\ ~ret.api.tuple
    /\ ret.w.nodes.ok
    /\ \A n \in Range(ret.w.nodes.data) : ret.w.qemu[n].ok

\* C5 as stated: the number of entries list_all_vms returns equals the sum
\* of the per-node VM counts, empty lists included.
C5_Original ==
    VmListsOk => Len(ret.value.items) = SumVMs(ret.w.nodes.data, ret.w.qemu, 1)

\* C5 amended: when the cluster has at least one VM the result has exactly
\* one entry per VM, whether or not the per-VM status call works; when it has
\* none the result is the single placeholder entry {"message": ...}.
C5_OneEntryPerVm ==
    VmListsOk =>
        LET n == SumVMs(ret.w.nodes.data, ret.w.qemu, 1)
        IN  IF n > 0
            THEN /\ Len(ret.value.items) = n
                 /\ \A i \in 1..n : ret.value.items[i].kind = "vm"
            ELSE ret.value = MsgList

\* two nodes with VMs, one VM with a failing status call
C5_Witness ==
    /\ VmListsOk
    /\ Len(ret.w.nodes.data) >= 2
    /\ \A n \in Range(ret.w.nodes.data) : Len(ret.w.qemu[n].data) >= 1
    /\ \E n \in Range(ret.w.nodes.data) :
          \E i \in 1..Len(ret.w.qemu[n].data) : ~ret.w.qemu[n].data[i]
    /\ Len(ret.value.items) = SumVMs(ret.w.nodes.data, ret.w.qemu, 1)

\* list_backups ran its fan-out branch and both listings worked
BackupFanOut ==
    /\ tool = "proxmox" /\ ~Idle
    /\ ret.op = "list_backups"
    /\ ~ret.api.tuple
    /\ ~(ret.args.storage # 0 /\ ret.args.node # 0)
    /\ ret.w.nodes.ok /\ ret.w.storages.ok

\* the backups of the cluster that are on the given storage (if any) and on
\* the given node (if any)
BackupsFiltered(storage, node, w) ==
    SelectSeq(BackupNodeLoop(w.nodes.data, w.storages.data, w, 1),
              LAMBDA b : /\ (storage # 0 => b.storage = storage)
                         /\ (node # 0 => b.node = node))

\* C6: list_backups filters by each optional argument on its own: with only
\* storage=S only the backups on S, with only node=N only the backups on N,
\* with neither all backups.
C6_FilterEach ==
    BackupFanOut =>
        ret.value = ListOrMsg(BackupsFiltered(ret.args.storage, ret.args.node, ret.w))

\* list_recent_tasks ran its fan-out branch and got the node list
TaskFanOut ==
    /\ tool = "proxmox" /\ ~Idle
    /\ ret.op = "list_recent_tasks"
    /\ ~ret.api.tuple
    /\ ret.args.node = 0
    /\ ret.w.nodes.ok

\* ... every tasks call worked, the cluster has tasks, and the limit allows
\* at least one task per node (so that every per-node request carries a
\* positive limit)
TaskFanOutOk ==
    /\ TaskFanOut
    /\ \A n \in Range(ret.w.nodes.data) : ret.w.tasks[n].ok
    /\ \E n \in Range(ret.w.nodes.data) : ret.w.tasks[n].data # <<>>
    /\ ret.args.limit >= Len(ret.w.nodes.data)

RECURSIVE AllTasks(_, _, _)
\* every task of every node
AllTasks(nodes, tasks, i) ==
    IF i > Len(nodes) THEN <<>>
    ELSE TaskEntries(nodes[i], tasks[nodes[i]].data, 1) \o AllTasks(nodes, tasks, i + 1)

\* the start times of a sequence of task entries
Starts(items) == [i \in 1..Len(items) |-> items[i].start]

\* C7: without a node and with limit L, list_recent_tasks returns the L most
\* recently started tasks of the whole cluster (all when there are fewer),
\* however the tasks are spread over the nodes.
C7_MostRecent ==
    TaskFanOutOk =>
        /\ ret.value.kind = "data"
        /\ Starts(ret.value.items) =
              Starts(Take(SortDesc(AllTasks(ret.w.nodes.data, ret.w.tasks, 1)),
                          ret.args.limit))

\* the number of entries of a list that satisfy P
Count(items, P(_)) == Cardinality({i \in 1..Len(items) : P(items[i])})

\* get_node_status ran its fan-out branch and got the node list
NodeStatusFanOut ==
    /\ tool = "proxmox" /\ ~Idle
    /\ ret.op = "get_node_status"
    /\ ~ret.api.tuple
    /\ ret.args.node = 0
    /\ ret.w.nodes.ok

\* list_storage_pools got the storage list
PoolFanOut ==
    /\ tool = "proxmox" /\ ~Idle
    /\ ret.op = "list_storage_pools"
    /\ ~ret.api.tuple
    /\ ret.w.storages.ok

\* the storage contents list_backups asks for in its fan-out branch
BackupPairs == Range(ret.w.nodes.data) \X {st \in StorageIds : ret.w.backupStore[st]}

\* list_backups: a failed content call leaves no entry, the others all theirs
BackupsSkip ==
    \A p \in BackupPairs :
        Count(ret.value.items, LAMBDA e : e.kind = "backup" /\ e.node = p[1] /\ e.storage = p[2])
          = IF ret.w.content[p].ok THEN ret.w.content[p].data ELSE 0

\* list_recent_tasks: a failed tasks call leaves no entry, every other node
\* the tasks its request returned
TasksSkip ==
    \A n \in Range(ret.w.nodes.data) :
        Count(ret.value.items, LAMBDA e : e.kind = "task" /\ e.node = n)
          = IF ret.w.tasks[n].ok
            THEN Min(Len(ret.w.tasks[n].data), ret.args.limit \div Len(ret.w.nodes.data))
            ELSE 0

\* the entries carry no error marker
NoErrorMarker == \A i \in 1..Len(ret.value.items) : "error" \notin ret.value.items[i].keys

\* C8 as stated: in every fan-out method a failed sub-call makes the method
\* skip that item: no entry and no error marker for it, and the entries of
\* all other items are returned.
C8_Original ==
    /\ BackupFanOut => (BackupsSkip /\ NoErrorMarker)
    /\ TaskFanOut => (TasksSkip /\ NoErrorMarker)
    /\ VmListsOk =>
          /\ NoErrorMarker
          /\ \A n \in Range(ret.w.nodes.data) : \A i \in 1..Len(ret.w.qemu[n].data) :
                Count(ret.value.items, LAMBDA e : e.kind = "vm" /\ e.vmid = n * 100 + i)
                  = IF ret.w.qemu[n].data[i] THEN 1 ELSE 0
    /\ NodeStatusFanOut =>
          /\ NoErrorMarker
          /\ \A n \in Range(ret.w.nodes.data) :
                Count(ret.value.items, LAMBDA e : e.node = n) = IF ret.w.status[n] THEN 1 ELSE 0
    /\ PoolFanOut =>
          /\ NoErrorMarker
          /\ \A st \in Range(ret.w.storages.data) :
                Count(ret.value.items, LAMBDA e : e.storage = st)
                  = IF UsageRaised(ret.w.usage[st]) THEN 0 ELSE 1

\* C8 amended: a failed sub-call never aborts the fan-out and the entries of
\* all other items are returned, but only list_backups (content call) and
\* list_recent_tasks (tasks call) omit the failed item.  list_all_vms keeps a
\* VM whose status call failed as a basic entry, get_node_status keeps the
\* node as an entry with an "error" key, list_storage_pools keeps the storage
\* with its usage fields set to "N/A"; and list_all_vms returns {"error": ...}
\* when the VM listing of a node fails.
C8_SkipOrDegrade ==
    /\ BackupFanOut => (BackupsSkip /\ NoErrorMarker)
    /\ TaskFanOut => (TasksSkip /\ NoErrorMarker)
    /\ VmListsOk =>
          /\ NoErrorMarker
          /\ \A n \in Range(ret.w.nodes.data) : \A i \in 1..Len(ret.w.qemu[n].data) :
                /\ Count(ret.value.items, LAMBDA e : e.kind = "vm" /\ e.vmid = n * 100 + i) = 1
                /\ \A k \in 1..Len(ret.value.items) :
                      (ret.value.items[k].kind = "vm" /\ ret.value.items[k].vmid = n * 100 + i)
                         => ret.value.items[k].detail
                              = IF ret.w.qemu[n].data[i] THEN "full" ELSE "basic"
    /\ (tool = "proxmox" /\ ~Idle /\ ret.op = "list_all_vms" /\ ~ret.api.tuple
        /\ ret.w.nodes.ok /\ \E n \in Range(ret.w.nodes.data) : ~ret.w.qemu[n].ok)
          => (ret.value.shape = "map" /\ "error" \in ret.value.keys)
    /\ NodeStatusFanOut =>
          /\ Len(ret.value.items) = Len(ret.w.nodes.data)
          /\ \A i \in 1..Len(ret.w.nodes.data) :
                /\ ret.value.items[i].node = ret.w.nodes.data[i]
                /\ "error" \in ret.value.items[i].keys <=> ~ret.w.status[ret.w.nodes.data[i]]
    /\ PoolFanOut =>
          /\ NoErrorMarker
          /\ Len(ret.value.items) = Len(ret.w.storages.data)
          /\ \A i \in 1..Len(ret.w.storages.data) :
                /\ ret.value.items[i].storage = ret.w.storages.data[i]
                /\ ret.value.items[i].usage = "N/A" <=> UsageRaised(ret.w.usage[ret.w.storages.data[i]])

\* list_backups met a failing content call and still returned the backups
\* of another node
C8_Witness ==
    /\ BackupFanOut
    /\ \E p \in BackupPairs : ~ret.w.content[p].ok
    /\ \E p \in BackupPairs : ret.w.content[p].ok /\ ret.w.content[p].data > 0
    /\ ret.value.kind = "data"

\* the last call was a method of the time tool
TimeCall == tool = "time" /\ ~Idle

\* C9: the timezone used is the explicit argument if given, else the user
\* preference user_timezone if set, else the configured default_timezone
\* (given and set: neither None nor empty).
C9_Precedence ==
    TimeCall =>
        ret.tz = IF Truthy(ret.timezone) THEN ret.timezone
                 ELSE IF Truthy(user_valves.user_timezone) THEN user_valves.user_timezone
                 ELSE valves.default_timezone

\* all three are set to different zones and the argument wins
C9_Witness ==
    /\ TimeCall
    /\ Truthy(ret.timezone) /\ Truthy(user_valves.user_timezone) /\ Truthy(valves.default_timezone)
    /\ ret.timezone # user_valves.user_timezone
    /\ ret.timezone # valves.default_timezone
    /\ user_valves.user_timezone # valves.default_timezone
    /\ ~ret.raised
    /\ ret.tz = ret.timezone

\* C10: when the resolved identifier is not a recognised IANA identifier the
\* method fails with an invalid-identifier error at the lookup, before any
\* date or time string is formatted, wherever the identifier came from.
C10_InvalidZoneFails ==
    (TimeCall /\ ret.tz \notin IANA) =>
        /\ ret.raised
        /\ ret.exc \in {"ZoneInfoNotFoundError", "ValueError"}
        /\ ret.strftime = 0
        /\ ret.value = NoValue

\* an unknown identifier from the user preference made get_current_datetime fail
C10_Witness ==
    /\ TimeCall
    /\ ret.op = "get_current_datetime"
    /\ ~Truthy(ret.timezone)
    /\ user_valves.user_timezone = "Mars/Base"
    /\ ret.raised

\* the last call was a method of the weather tool
WeatherCall == tool = "weather" /\ ~Idle

\* what the caller of a weather method observes
Observed(r) == [raised |-> r.raised, exc |-> r.exc, value |-> r.value]

\* what the caller observes of the call op(args) when its geocoding request
\* meets the outcome geo
WeatherOutcome(op, args, geo) ==
    Observed(IF op = "get_current_weather"
             THEN get_current_weather_ret(args.city, geo, "none", 0)
             ELSE get_weather_forecast_ret(args.city, args.days, geo, "none"))

\* C11: a geocoding miss (empty result set) never produces the same result
\* as a transport failure of the geocoding request (non-200 status or
\* network error) would for the same call.
C11_MissDistinct ==
    (WeatherCall /\ ret.geo = "empty") =>
        \A g \in {"non200", "neterr"} : WeatherOutcome(ret.op, ret.args, g) # Observed(ret)

\* the forecast request, when issued, follows a geocoding result and carries
\* its latitude, longitude and timezone
ForecastAfterGeocode ==
    /\ ret.forecastRequests <= 1
    /\ ret.forecastRequests = 1 =>
          /\ ret.geoRequests = 1
          /\ ret.geo = "ok"
          /\ ret.location \in KnownCities
          /\ ret.params.latitude = CityInfo(ret.location).latitude
          /\ ret.params.longitude = CityInfo(ret.location).longitude
          /\ ret.params.timezone = CityInfo(ret.location).timezone
    /\ ret.geo \in {"neterr", "non200", "badjson", "empty"} => ret.forecastRequests = 0

\* C12 as stated: every call issues exactly one geocoding request first and
\* at most one forecast request, only after geocoding returned a result and
\* with the latitude, longitude and timezone of that result.
C12_Original ==
    WeatherCall => (ret.geoRequests = 1 /\ ForecastAfterGeocode)

\* C12 amended: a call for which a location is resolved (argument, user
\* preference or default, the first that is non-empty) issues exactly one
\* geocoding request first and at most one forecast request, only after
\* geocoding returned a result and with the latitude, longitude and timezone
\* of that result; a call for which no location is resolved issues no
\* request at all.
C12_TwoStepLookup ==
    WeatherCall =>
        /\ ret.geoRequests = (IF Truthy(ret.location) THEN 1 ELSE 0)
        /\ ~Truthy(ret.location) => ret.forecastRequests = 0
        /\ ForecastAfterGeocode

\* a forecast was requested for the city of the user preference, with the
\* coordinates the geocoder answered for it
C12_Witness ==
    /\ WeatherCall
    /\ ret.op = "get_weather_forecast"
    /\ ~Truthy(ret.args.city)
    /\ ret.location = "Tokyo"
    /\ ret.geoRequests = 1 /\ ret.forecastRequests = 1
    /\ ret.params.latitude = 35 /\ ret.params.timezone = "Asia/Tokyo"

\* the unit system the override chain resolves to
UnitSystem == Or(user_valves.user_unit_system, valves.unit_system)

\* C13: both weather methods request the units of the resolved unit system
\* (user_unit_system if set, else unit_system; metric gives celsius, km/h,
\* mm, otherwise fahrenheit, mph, inch) and show its symbols in the text.
C13_UnitsFollow ==
    (WeatherCall /\ ret.forecastRequests = 1) =>
        /\ ret.params.temperature_unit = (IF UnitSystem = "metric" THEN "celsius" ELSE "fahrenheit")
        /\ ret.params.wind_speed_unit = (IF UnitSystem = "metric" THEN "kmh" ELSE "mph")
        /\ ret.params.precipitation_unit = (IF UnitSystem = "metric" THEN "mm" ELSE "inch")
        /\ (~ret.raised /\ ret.value.kind = "report") =>
              ret.value.temp_symbol = (IF UnitSystem = "metric" THEN "C" ELSE "F")

RECURSIVE DigitsValue(_)
\* the number a sequence of decimal digits denotes
DigitsValue(d) ==
    IF d = <<>> THEN 0 ELSE 10 * DigitsValue(SubSeq(d, 1, Len(d) - 1)) + d[Len(d)]

Helper(op) == tool = "proxmox" /\ ~Idle /\ ret.op = op

\* C15: for every duration s >= 0 the uptime formatter never shows a leading
\* unit whose value is 0 while a smaller unit is nonzero: days are shown only
\* when days > 0, hours lead only when days = 0 and hours > 0, and otherwise
\* only minutes are shown.
C15_LeadingUnit ==
    Helper("_format_uptime") =>
        LET sec == ret.args.seconds
            p == ret.value.parts
        IN  /\ Len(p) > 1 => p[1][1] > 0
            /\ [i \in 1..Len(p) |-> p[i][2]] =
                  (IF sec >= 86400 THEN <<"d", "h", "m">>
                   ELSE IF sec >= 3600 THEN <<"h", "m">>
                   ELSE <<"m">>)

\* 23 hours and 59 seconds are shown as "23h 0m": hours lead, no days field
C15_Witness ==
    /\ Helper("_format_uptime")
    /\ ret.args.seconds = 23 * 3600 + 59
    /\ ret.value.parts = <<Part(23, "h"), Part(0, "m")>>

\* C16 as stated: the percentage helper returns 0 for every used when
\* total = 0, and otherwise used/total*100 rounded to one decimal place.
C16_Original ==
    Helper("_calculate_percentage") =>
        LET used == ret.args.used
            total == ret.args.total
            v == ret.value
        IN  IF total = 0 THEN v.num = 0
            ELSE v.num * 10 = RoundDiv(used * 1000, total) * v.den

\* C16 amended: the percentage helper returns 0 for every used when
\* total = 0, and otherwise the quotient used/total*100 itself, not rounded.
C16_Percentage ==
    Helper("_calculate_percentage") =>
        LET used == ret.args.used
            total == ret.args.total
            v == ret.value
        IN  /\ v.shape = "float"
            /\ IF total = 0 THEN v.num = 0
               ELSE v.num * total = used * 100 * v.den

\* one third is returned as 33.33..., which has no one-decimal form
C16_Witness ==
    /\ Helper("_calculate_percentage")
    /\ ret.args.used = 1 /\ ret.args.total = 3
    /\ ret.value.num = 100 /\ ret.value.den = 3

\* byte count a is at most byte count b
BytesLeq(a, b) ==
    \/ a.e < b.e
    \/ a.e = b.e /\ a.top < b.top
    \/ a.e = b.e /\ a.top = b.top /\ a.mid < b.mid
    \/ a.e = b.e /\ a.top = b.top /\ a.mid = b.mid /\ a.low <= b.low

\* the position of a unit in B, KB, MB, GB, TB, PB (from 0)
UnitIndex(u) == CHOOSE i \in 0..5 : Units[i + 1] = u

RECURSIVE CeilShift(_, _)
\* x / 1024^k rounded up
CeilShift(x, k) == IF k = 0 THEN x ELSE CeilShift((x + 1023) \div 1024, k - 1)

\* the quantity string x denotes is at most the quantity string y denotes
DenotedLeq(x, y) ==
    LET i == UnitIndex(x.unit)
        j == UnitIndex(y.unit)
    IN  IF i <= j THEN CeilShift(x.hundredths, j - i) <= y.hundredths
        ELSE x.hundredths < CeilShift(y.hundredths + 1, i - j)

\* round(b / 1024**3, 2) in hundredths, for the byte counts from 1 GB up to
\* below 1024 GB
GBHundredths(b) == CASE b.e = 3 /\ b.top < 1024 -> TwoDecimals(b)

\* C17 as stated: for every byte count b >= 0 the byte-formatting function
\* returns round(b / 1024**3, 2) expressed in GB, and is monotonic in b.
C17_Original ==
    Helper("_format_bytes") =>
        /\ ret.value.unit = "GB"
        /\ ret.value.hundredths = GBHundredths(ret.args.bytes_value)

\* C17 amended: for every byte count b >= 0 the function returns
\* b / 1024^n with two decimals followed by the n-th unit of B, KB, MB, GB,
\* TB, PB, where n is the least of 0..4 with b / 1024^n < 1024 and 5 when
\* there is none; the quantity the result denotes is non-decreasing in b.
C17_HumanReadable ==
    Helper("_format_bytes") =>
        LET b == ret.args.bytes_value
            n == IF b.top < 1024 THEN b.e ELSE 5
        IN  /\ ret.value.unit = Units[n + 1]
            /\ ret.value.hundredths = TwoDecimals(b)
            /\ (n < 5 => ret.value.hundredths <= 102400)
            /\ \A a \in BytesArgs :
                  BytesLeq(a, b) => DenotedLeq(_format_bytes(a, 0), ret.value)

\* 1023 MB + 1023 KB + 1023 B is "1024.00 MB": the next unit is not taken
C17_Witness ==
    /\ Helper("_format_bytes")
    /\ ret.args.bytes_value = Bytes(2, 1023, 1023, 1023)
    /\ ret.value = BytesStr(102400, "MB")

\* C18: no tool method mutates the configuration: over any sequence of
\* public method calls, successful or failing, valves and user_valves keep
\* their values; only the cached handle and its timestamp may change (and
\* of those the time and weather tools have none to change).
C18_ConfigUnchanged ==
    [][/\ valves' = valves
       /\ user_valves' = user_valves
       /\ tool' = tool
       /\ tool # "proxmox" => (_api_cache' = _api_cache /\ _cache_time' = _cache_time)]_vars

\* a second handle was stored and a later call then failed to connect
C18_Witness ==
    /\ tool = "proxmox"
    /\ ~Idle
    /\ ret.usesApi /\ ret.api.tuple
    /\ created = 2 /\ _api_cache = 2


\* a request that raised is issued again later in the same call
Reissued(calls) ==
    \E i \in 1..Len(calls) : \E j \in (i + 1)..Len(calls) :
        /\ ~calls[i].ok
        /\ calls[j].what = calls[i].what
        /\ calls[j].node = calls[i].node
        /\ calls[j].item = calls[i].item

\* C19: there is no retry: within one call of a public method _get_api makes
\* at most one attempt to create a connection, the weather tool issues each
\* of its two requests at most once, and a request that failed is never
\* issued again within that same call.
C19_NoRetry ==
    /\ ApiCall => (ret.api.attempts <= 1 /\ ~Reissued(ret.calls))
    /\ WeatherCall => (ret.geoRequests <= 1 /\ ret.forecastRequests <= 1)


\* no _get_api call is in progress
Quiescent == \A t \in DOMAIN frames : ~Running(t)

\* the stored timestamp was recorded by the call that created the stored handle
StampMatches == stamper = _api_cache

\* C20: as long as the _get_api calls on one instance ran one at a time, the
\* stored _cache_time was recorded by the same call that created the stored
\* _api_cache handle (except inside that call, between its two assignments);
\* the state in which the timestamp belongs to another handle than the
\* stored one is reached only by interleaving two calls.
C20_SerialStamps ==
    (tool = "proxmox" /\ ~overlapped) =>
        \/ StampMatches
        \/ \E t \in DOMAIN frames : frames[t].pc = "stamp" /\ frames[t].h = _api_cache

\* two interleaved calls have returned and left the handle of one with the
\* timestamp of the other
C20_Witness ==
    /\ tool = "proxmox" /\ overlapped /\ Quiescent
    /\ _api_cache # 0 /\ stamper # 0
    /\ ~StampMatches

\* the last call got as far as creating a connection, and that failed
CreationFailed == ApiCall /\ ret.api.attempts = 1 /\ ret.api.tuple

\* C21: when creating a new handle fails inside _get_api the call gets the
\* pair (None, message) and _api_cache and _cache_time stay as they were
\* before the call; the stored handle is then still not fresh, it stays so
\* while the two attributes stay, and a call that starts while the stored
\* handle is not fresh attempts a creation.
C21_FailureKeepsCache ==
    [][/\ (Idle /\ CreationFailed') =>
             /\ ret'.api.tuple /\ ret'.api.api = 0
             /\ _api_cache' = _api_cache
             /\ _cache_time' = _cache_time
             /\ ~CacheFresh'
       /\ (~CacheFresh /\ _api_cache' = _api_cache /\ _cache_time' = _cache_time
           /\ valves' = valves)
             => ~CacheFresh'
       /\ (Idle /\ ~CacheFresh /\ ApiCall') => ret'.api.attempts = 1]_vars

\* a creation failed while an expired handle was stored
C21_Witness ==
    /\ CreationFailed
    /\ _api_cache # 0
    /\ _cache_time # NoTime

\* list_recent_tasks returned task entries
TaskList ==
    /\ tool = "proxmox" /\ ~Idle
    /\ ret.op = "list_recent_tasks"
    /\ ret.value.kind = "data"

\* C22: for any node argument and any limit >= 1, list_recent_tasks returns
\* at most limit task entries, ordered by start time with the most recently
\* started task first.
C22_LimitAndOrder ==
    TaskList =>
        LET items == ret.value.items
        IN  /\ Len(items) <= ret.args.limit
            /\ \A i \in 1..Len(items) : \A j \in (i + 1)..Len(items) :
                  items[i].start >= items[j].start

\* a string that is given: neither None nor empty
Given(s) == s \notin {None, ""}

\* the location the precedence of C23 names for the last call
Preferred ==
    IF Given(ret.args.city) THEN ret.args.city
    ELSE IF Given(user_valves.user_location) THEN user_valves.user_location
    ELSE valves.default_location

\* C23: both weather methods use the city argument if it is non-empty, else
\* the user preference user_location if set, else the configured
\* default_location; the geocoding request and the answer name that
\* location; when it is empty the method returns the 'Please provide a city
\* name' message without issuing any network request.
C23_LocationPrecedence ==
    WeatherCall =>
        /\ ret.location = Preferred
        /\ (~ret.raised /\ ret.value.kind \in {"report", "not_found"})
              => ret.value.city = Preferred
        /\ ret.value.kind = "need_city" <=> ~Given(Preferred)
        /\ ~Given(Preferred) =>
              /\ ~ret.raised
              /\ ret.geoRequests = 0
              /\ ret.forecastRequests = 0

\* without a city argument the current weather is reported for the user's
\* location, not for the configured default
C23_Witness ==
    /\ WeatherCall
    /\ ret.op = "get_current_weather"
    /\ ret.args.city = ""
    /\ user_valves.user_location = "Tokyo"
    /\ valves.default_location = "Louisville"
    /\ ret.value.kind = "report"
    /\ ret.value.city = "Tokyo"

\* get_weather_forecast sent its forecast request
ForecastRequested ==
    /\ WeatherCall
    /\ ret.op = "get_weather_forecast"
    /\ ret.forecastRequests = 1

\* days brought into the range 1..16
Clamped(days) == IF days < 1 THEN 1 ELSE IF days > 16 THEN 16 ELSE days

\* C24: for every integer days, get_weather_forecast requests
\* forecast_days = max(1, min(16, days)), a number within 1..16, and the
\* same number appears in the title of the report.
C24_DaysClamped ==
    ForecastRequested =>
        /\ ret.params.forecast_days = Clamped(ret.args.days)
        /\ ret.params.forecast_days \in 1..16
        /\ (~ret.raised /\ ret.value.kind = "report")
              => ret.value.days = ret.params.forecast_days

\* 40 days are asked for, 16 are requested and named in the title
C24_Witness ==
    /\ ForecastRequested
    /\ ret.args.days = 40
    /\ ret.params.forecast_days = 16
    /\ ret.value.kind = "report"
    /\ ret.value.days = 16

\* the number shown with unit letter u in an uptime string, 0 when the
\* string has no such field
Component(parts, u) ==
    IF \E i \in 1..Len(parts) : parts[i][2] = u
    THEN parts[CHOOSE i \in 1..Len(parts) : parts[i][2] = u][1]
    ELSE 0

\* C25: the uptime formatter decomposes faithfully: for every s >= 0 the
\* displayed components satisfy 0 <= hours < 24, 0 <= minutes < 60 and
\* days*86400 + hours*3600 + minutes*60 <= s
\*   < days*86400 + hours*3600 + minutes*60 + 60,
\* a component that is not displayed counting as 0.
C25_FaithfulDecomposition ==
    Helper("_format_uptime") =>
        LET s == ret.args.seconds
            days == Component(ret.value.parts, "d")
            hours == Component(ret.value.parts, "h")
            minutes == Component(ret.value.parts, "m")
            shown == days * 86400 + hours * 3600 + minutes * 60
        IN  /\ days >= 0
            /\ hours >= 0 /\ hours < 24
            /\ minutes >= 0 /\ minutes < 60
            /\ shown <= s /\ s < shown + 60

\* 2 days, 23 hours, 59 minutes and 59 seconds are shown as "2d 23h 59m"
C25_Witness ==
    /\ Helper("_format_uptime")
    /\ ret.args.seconds = 2 * 86400 + 23 * 3600 + 59 * 60 + 59
    /\ Component(ret.value.parts, "d") = 2
    /\ Component(ret.value.parts, "h") = 23
    /\ Component(ret.value.parts, "m") = 59


\* get_cluster_status answered with its report
ClusterOk ==
    /\ tool = "proxmox" /\ ~Idle /\ ret.op = "get_cluster_status"
    /\ ret.value.kind = "data"

\* running + stopped = total and 0 <= running <= total
CountsAddUp(c) == c.running + c.stopped = c.total /\ 0 <= c.running /\ c.running <= c.total

\* C26: in a report of get_cluster_status the counts are consistent: for the
\* virtual machines and for the containers running + stopped = total with
\* 0 <= running <= total, and nodes.online <= nodes.total = the number of
\* entries of nodes.details
C26_ConsistentCounts ==
    ClusterOk =>
        /\ CountsAddUp(ret.value.virtual_machines)
        /\ CountsAddUp(ret.value.containers)
        /\ ret.value.nodes.online <= ret.value.nodes.total
        /\ ret.value.nodes.total = Len(ret.value.nodes.details)

C26_Witness ==
    /\ ClusterOk
    /\ ret.value.nodes.total = 2 /\ ret.value.nodes.online = 1
    /\ ret.value.containers.total = 1 /\ ret.value.containers.running = 1
    /\ ret.value.virtual_machines.total = 0

\* the 'mem' values tried for a node of 'maxmem' 4
MemValues == 0..4

\* the node resources with other memory figures, the cpu figures kept
WithMem(resources, f) ==
    [i \in 1..Len(resources) |->
        [resources[i] EXCEPT !.mem = IF resources[i].maxmem = 0 THEN 0 ELSE f[i]]]

\* C27: resources.cpu.usage of get_cluster_status depends on the cpu figures
\* of the nodes and not on their memory figures: node resources that agree
\* on every 'cpu' and 'maxcpu' and differ in 'mem' give the same cpu usage
C27_CpuUsageFromCpu ==
    ClusterOk =>
        \A f \in [1..Len(ret.w.resources) -> MemValues] :
            get_cluster_status_value(ret.api,
                [ret.w EXCEPT !.resources = WithMem(ret.w.resources, f)]).cpu.usage
            = ret.value.cpu.usage


\* get_vm_details or get_container_details answered with the details, and
\* the API returned the snapshot list
DetailsWithSnapshots ==
    /\ tool = "proxmox" /\ ~Idle
    /\ ret.op \in {"get_vm_details", "get_container_details"}
    /\ ret.value.kind = "data"
    /\ ret.w.snaps.ok

\* the snapshot entries of an answer of list_snapshots (the placeholder
\* {"message": ...} and {"error": ...} are no snapshot entries)
SnapshotEntries(v) == IF v.kind = "data" THEN Len(v.items) ELSE 0

\* C28: for the same guest and the same snapshot list returned by the API,
\* the "snapshots" count of get_vm_details / get_container_details equals the
\* number of snapshot entries list_snapshots returns, and list_snapshots
\* returns no entry named 'current'
C28_SnapshotCountsAgree ==
    /\ DetailsWithSnapshots =>
          ret.value.snapshots
          = SnapshotEntries(list_snapshots_value(ret.api, [body |-> "ok", snaps |-> ret.w.snaps]))
    /\ (tool = "proxmox" /\ ~Idle /\ ret.op = "list_snapshots" /\ ret.value.kind = "data") =>
          \A i \in 1..Len(ret.value.items) : ret.value.items[i].name # CurrentName


\* check_connection was called
ConnectionChecked == tool = "proxmox" /\ ~Idle /\ ret.op = "check_connection"

\* C29: check_connection returns status "Connected" only if the handle was
\* obtained and the version request succeeded; in every other case it
\* returns status "Failed" together with an "error" entry; it never raises
C29_ConnectedOnlyWhenVerified ==
    ConnectionChecked =>
        /\ ~ret.raised
        /\ ret.value.shape = "map"
        /\ ret.value.status = "Connected" => ~ret.api.tuple /\ ret.w.version
        /\ ~(~ret.api.tuple /\ ret.w.version) =>
              ret.value.status = "Failed" /\ "error" \in ret.value.keys

C29_Witness ==
    /\ ConnectionChecked
    /\ ~ret.api.tuple /\ ~ret.w.version
    /\ ret.value.status = "Failed"

====
